---- MODULE Spec2Model ----
(***************************************************************************)
(* Model of the CloudFormation -> CDKTF converter's mapping engine         *)
(* (ResourceMapper, lib/mapper/index.js).                                  *)
(*                                                                         *)
(* JavaScript strings are modelled as sequences of one-character strings   *)
(* so that the regular-expression rewrites of the mapper are computed      *)
(* character by character, as String.prototype.replace does.               *)
(***************************************************************************)
EXTENDS Integers, Sequences, FiniteSets, TLC

VARIABLES
    x,          \* sanitize driver: the input string
    sx,         \* sanitize driver: sanitizeResourceName(x)
    ssx,        \* sanitize driver: sanitizeResourceName(sx)
    spc,        \* sanitize driver: position ("in", "once", "twice")
    template,   \* mapTemplate: the parsed source template
    pc,         \* mapTemplate: position in the call
    idx,        \* mapTemplate: index of the next Resources entry
    resources,  \* mapTemplate: const resources = []
    variables,  \* mapTemplate: const variables = {}
    outputs,    \* mapTemplate: const outputs = {}
    warnings,   \* console.warn calls made so far (the diagnostics)
    node,       \* resolver driver: the source value tree
    asValue,    \* resolver driver: transformValue(node), property position
    asExpr,     \* resolver driver: transformExpression(node), output position
    dep,        \* dependency driver: the DependsOn value a resource declares
    deps,       \* dependency driver: dependencies mapResource gives for dep
    depsSeq,    \* dependency driver: dependencies mapResource gives for [dep]
    tfType,     \* type driver: the Terraform type tag
    tsType,     \* type driver: terraformTypeToTypeScript(tfType)
    config,     \* generator driver: the TerraformConfig handed to the generator
    mainFile,   \* generator driver: the generated parts of main.ts
    kindTable,  \* ResourceMapper.resourceTypeMapping, the static lookup object
    history,    \* the calls of mapTemplate completed so far
    tsArg,      \* type recursion: the argument of the current call
    tsDepth,    \* type recursion: the number of recursive calls made
    tsWrap,     \* type recursion: the wrappers of the calls waiting to return
    language,   \* generateCode: the target language
    outDir,     \* generateCode: the output directory (exists, files)
    genOutcome, \* generateCode: "pending", "returned" or "threw"
    inputFile,  \* CLI: the file named by --input
    cli,        \* CLI: position of main, console log, exit status
    yamlText,   \* loader: the text after a !GetAtt tag
    loaded      \* loader: the marker form the tag is rewritten to

vars == <<x, sx, ssx, spc, template, pc, idx, resources, variables, outputs,
          warnings, node, asValue, asExpr, dep, deps, depsSeq, tfType, tsType,
          config, mainFile, kindTable, history, tsArg, tsDepth, tsWrap,
          language, outDir, genOutcome, inputFile, cli, yamlText, loaded>>

sanVars == <<x, sx, ssx, spc>>
mapVars == <<template, pc, idx, resources, variables, outputs, warnings>>
resVars == <<node, asValue, asExpr>>
depVars == <<dep, deps, depsSeq>>
typVars == <<tfType, tsType>>
genVars == <<config, mainFile>>
callVars == <<kindTable, history>>
extVars == <<depVars, typVars, genVars, callVars>>
stepVars == <<tsArg, tsDepth, tsWrap>>
codeVars == <<language, outDir, genOutcome>>
cliVars == <<inputFile, cli>>
loadVars == <<yamlText, loaded>>
moreVars == <<stepVars, codeVars, cliVars, loadVars>>

(***************************************************************************)
(* Bounds                                                                  *)
(***************************************************************************)
MaxLen == 3          \* longest generated input string of the sanitize driver
MaxResources == 2    \* most Resources entries of a generated template
MaxDepth == 1        \* deepest wrapping of a generated value tree

(***************************************************************************)
(* Characters                                                              *)
(***************************************************************************)
UpperChars == <<"A","B","C","D","E","F","G","H","I","J","K","L","M",
                "N","O","P","Q","R","S","T","U","V","W","X","Y","Z">>
LowerChars == <<"a","b","c","d","e","f","g","h","i","j","k","l","m",
                "n","o","p","q","r","s","t","u","v","w","x","y","z">>
DigitChars == <<"0","1","2","3","4","5","6","7","8","9">>

Range(s) == {s[i] : i \in 1..Len(s)}

IsUpper(c) == c \in Range(UpperChars)
IsLower(c) == c \in Range(LowerChars)
IsDigit(c) == c \in Range(DigitChars)

\* One character of String.prototype.toLowerCase (ASCII letters).
toLowerCaseChar(c) ==
    IF IsUpper(c)
    THEN LowerChars[CHOOSE i \in 1..26 : UpperChars[i] = c]
    ELSE c

\* String.prototype.toLowerCase
toLowerCase(s) == [i \in 1..Len(s) |-> toLowerCaseChar(s[i])]

\* The character class [a-zA-Z0-9_]
IsWordChar(c) == IsLower(c) \/ IsUpper(c) \/ IsDigit(c) \/ c = "_"

\* s.replace(/[^a-zA-Z0-9_]/g, '_')
replaceNonWord(s) == [i \in 1..Len(s) |-> IF IsWordChar(s[i]) THEN s[i] ELSE "_"]

\* s.replace(/[^a-zA-Z0-9_]/, '_'): without the g flag only the first match
\* is replaced.
replaceFirstNonWord(s) ==
    IF \E i \in 1..Len(s) : ~IsWordChar(s[i])
    THEN LET k == CHOOSE i \in 1..Len(s) :
                     /\ ~IsWordChar(s[i])
                     /\ \A j \in 1..(i-1) : IsWordChar(s[j])
         IN  [i \in 1..Len(s) |-> IF i = k THEN "_" ELSE s[i]]
    ELSE s

\* s.replace(/([A-Z])/g, '_$1')
RECURSIVE replaceUpper(_)
replaceUpper(s) ==
    IF s = <<>> THEN <<>>
    ELSE (IF IsUpper(Head(s)) THEN <<"_", Head(s)>> ELSE <<Head(s)>>)
         \o replaceUpper(Tail(s))

\* s.startsWith(p)
startsWith(s, p) == Len(s) >= Len(p) /\ SubSeq(s, 1, Len(p)) = p

(***************************************************************************)
(* JavaScript values.  Every value is a record [t, v]: t is the type tag    *)
(* and v the payload (a character sequence for a string, the element        *)
(* sequence for an array, the sequence of <<key, value>> entries in         *)
(* Object.entries order for a plain object).  Throw stands for a call that  *)
(* ended with a TypeError instead of returning.                             *)
(***************************************************************************)
Str(s)  == [t |-> "string", v |-> s]
Num(n)  == [t |-> "number", v |-> n]
Bool(b) == [t |-> "boolean", v |-> b]
Arr(a)  == [t |-> "array", v |-> a]
Obj(e)  == [t |-> "object", v |-> e]
Fun(n)  == [t |-> "function", v |-> n]
Null      == [t |-> "null", v |-> 0]
Undefined == [t |-> "undefined", v |-> 0]
Throw     == [t |-> "throw", v |-> 0]
Pending   == [t |-> "pending", v |-> 0]

IsString(val) == val.t = "string"

\* JavaScript truthiness (the condition of `if (v)`, `!v`, `v ? a : b`)
Truthy(val) ==
    CASE val.t = "string"  -> val.v # <<>>
      [] val.t = "number"  -> val.v # 0
      [] val.t = "boolean" -> val.v
      [] val.t \in {"null", "undefined"} -> FALSE
      [] OTHER -> TRUE

\* `key in obj` for a plain object holding the entries obj.v
HasKey(obj, key) == \E i \in 1..Len(obj.v) : obj.v[i][1] = key

\* obj[key] for an own key
GetKey(obj, key) ==
    IF HasKey(obj, key)
    THEN obj.v[CHOOSE i \in 1..Len(obj.v) : obj.v[i][1] = key][2]
    ELSE Undefined

S_proto == <<"_","_","p","r","o","t","o","_","_">>

\* result[key] = val on the entry sequence of a plain object created by {}:
\* an existing key keeps its position and takes the new value, a new key is
\* appended.  The key "__proto__" is the accessor inherited from
\* Object.prototype: the assignment sets (or, for a primitive val, ignores)
\* the prototype and creates no own entry.
PutKey(entries, key, val) ==
    IF key = S_proto THEN entries
    ELSE IF \E i \in 1..Len(entries) : entries[i][1] = key
    THEN [i \in 1..Len(entries) |->
            IF entries[i][1] = key THEN <<key, val>> ELSE entries[i]]
    ELSE Append(entries, <<key, val>>)

(***************************************************************************)
(* NameSanitizer and the casing rule                                       *)
(***************************************************************************)

\* Mutant: toLowerCase() forgotten.
sanitizeResourceNameNoLower(name) ==
    IF IsString(name) THEN Str(replaceNonWord(name.v)) ELSE Throw

\* Mutant: the g flag forgotten, only the first match is replaced.
sanitizeResourceNameFirstOnly(name) ==
    IF IsString(name) THEN Str(toLowerCase(replaceFirstNonWord(name.v))) ELSE Throw

\* name.replace(/[^a-zA-Z0-9_]/g, '_').toLowerCase(); a value without a
\* replace method (anything but a string) raises a TypeError.
sanitizeResourceName(name) ==
    IF IsString(name) THEN Str(toLowerCase(replaceNonWord(name.v))) ELSE Throw

\* Mutant: no separator is put before a leading capital.
camelToSnakeCaseNoLeading(str) ==
    IF ~IsString(str) THEN Throw
    ELSE IF str.v = <<>> THEN str
    ELSE Str(toLowerCase(<<Head(str.v)>> \o replaceUpper(Tail(str.v))))

\* str.replace(/([A-Z])/g, '_$1').toLowerCase()
camelToSnakeCase(str) ==
    IF IsString(str) THEN Str(toLowerCase(replaceUpper(str.v))) ELSE Throw

(***************************************************************************)
(* Driver of sanitizeResourceName: the input is drawn from every string of  *)
(* at most MaxLen characters over Alphabet, and the README-style sample.    *)
(***************************************************************************)
Alphabet == {"A", "Z", "a", "1", "_", "-", "."}

RECURSIVE StringsUpTo(_)
StringsUpTo(n) ==
    IF n = 0 THEN {<<>>}
    ELSE LET shorter == StringsUpTo(n - 1)
         IN  shorter \cup {Append(s, c) : s \in shorter, c \in Alphabet}

S_MyBucket1 == <<"M","y","-","B","u","c","k","e","t",".","1">>
S_my_bucket_1 == <<"m","y","_","b","u","c","k","e","t","_","1">>

SanitizeInputs == StringsUpTo(MaxLen) \cup {S_MyBucket1}

\* The sanitize driver before its input is drawn / when it is not used.
SanitizeIdle ==
    /\ x = <<>>
    /\ sx = Pending
    /\ ssx = Pending
    /\ spc = "idle"

\* sanitize(x)
SanitizeOnce ==
    /\ spc = "in"
    /\ sx' = sanitizeResourceName(Str(x))
    /\ spc' = "once"
    /\ UNCHANGED <<x, ssx>>
    /\ UNCHANGED <<mapVars, resVars, extVars>>
    /\ UNCHANGED moreVars

\* sanitize(sanitize(x))
SanitizeTwice ==
    /\ spc = "once"
    /\ ssx' = sanitizeResourceName(sx)
    /\ spc' = "twice"
    /\ UNCHANGED <<x, sx>>
    /\ UNCHANGED <<mapVars, resVars, extVars>>
    /\ UNCHANGED moreVars

(***************************************************************************)
(* String conversion and entry enumeration of JavaScript values            *)
(***************************************************************************)
S_null == <<"n","u","l","l">>
S_undefined == <<"u","n","d","e","f","i","n","e","d">>
S_true == <<"t","r","u","e">>
S_false == <<"f","a","l","s","e">>
S_objectObject == <<"[","o","b","j","e","c","t"," ","O","b","j","e","c","t","]">>

\* The decimal digits of a natural number
RECURSIVE NatToStr(_)
NatToStr(n) ==
    IF n < 10 THEN <<DigitChars[n + 1]>>
    ELSE NatToStr(n \div 10) \o <<DigitChars[(n % 10) + 1]>>

\* String(val), also the conversion a template literal `${val}` applies.
\* Array.prototype.toString joins the elements with ",", null and undefined
\* elements giving the empty string.
RECURSIVE JsString(_)
RECURSIVE JoinComma(_)
JsString(val) ==
    CASE val.t = "string"    -> val.v
      [] val.t = "number"    -> NatToStr(val.v)
      [] val.t = "boolean"   -> IF val.v THEN S_true ELSE S_false
      [] val.t = "null"      -> S_null
      [] val.t = "undefined" -> S_undefined
      [] val.t = "array"     -> JoinComma(val.v)
      [] OTHER               -> S_objectObject
JoinComma(items) ==
    IF items = <<>> THEN <<>>
    ELSE LET h == IF Head(items).t \in {"null", "undefined"}
                  THEN <<>> ELSE JsString(Head(items))
         IN  IF Len(items) = 1 THEN h
             ELSE h \o <<",">> \o JoinComma(Tail(items))

\* Object.entries(val): the own enumerable entries; null and undefined raise
\* a TypeError, a string or an array enumerates its indices, a number or a
\* boolean has none.
ObjectEntries(val) ==
    CASE val.t = "object" -> Arr(val.v)
      [] val.t \in {"array", "string"} ->
            Arr([i \in 1..Len(val.v) |->
                   <<NatToStr(i - 1),
                     IF val.t = "string" THEN Str(<<val.v[i]>>) ELSE val.v[i]>>])
      [] val.t \in {"null", "undefined"} -> Throw
      [] OTHER -> Arr(<<>>)

\* const [a, b] = val: the first two values the iterator of val yields
\* (undefined past the end); a value that is not iterable raises a TypeError.
Destructure2(val) ==
    LET at(i) == IF i <= Len(val.v)
                 THEN (IF val.t = "string" THEN Str(<<val.v[i]>>) ELSE val.v[i])
                 ELSE Undefined
    IN  IF val.t \in {"array", "string"} THEN Arr(<<at(1), at(2)>>) ELSE Throw

(***************************************************************************)
(* ExpressionResolver                                                      *)
(***************************************************************************)
S_Ref == <<"R","e","f">>
S_FnGetAtt == <<"F","n",":",":","G","e","t","A","t","t">>
S_props == <<"p","r","o","p","s",".">>
S_AWS == <<"A","W","S",":",":">>
S_AWSRegion == <<"A","W","S",":",":","R","e","g","i","o","n">>
S_AWSAccountId == <<"A","W","S",":",":","A","c","c","o","u","n","t","I","d">>
Quote == "\""

\* The Fn::GetAtt branch shared by transformValue and transformExpression:
\*   const [resourceName, attribute] = node['Fn::GetAtt'];
\*   const resourceId = this.sanitizeResourceName(resourceName);
\*   return `${resourceId}.${this.camelToSnakeCase(attribute)}`;
getAttFragment(arg) ==
    LET parts == Destructure2(arg) IN
    IF parts.t = "throw" THEN Throw
    ELSE LET resourceId == sanitizeResourceName(parts.v[1])
             attribute  == camelToSnakeCase(parts.v[2])
         IN  IF resourceId.t = "throw" \/ attribute.t = "throw" THEN Throw
             ELSE Str(resourceId.v \o <<".">> \o attribute.v)

RECURSIVE transformValue(_)
RECURSIVE transformEntries(_, _)
\* ResourceMapper.transformValue
transformValue(value) ==
    IF value.t = "array"
    THEN LET items == [i \in 1..Len(value.v) |-> transformValue(value.v[i])]
         IN  IF \E i \in 1..Len(items) : items[i].t = "throw"
             THEN Throw ELSE Arr(items)
    ELSE IF value.t = "object"
    THEN IF HasKey(value, S_Ref)
         THEN Str(S_props \o JsString(GetKey(value, S_Ref)))
         ELSE IF HasKey(value, S_FnGetAtt)
         THEN getAttFragment(GetKey(value, S_FnGetAtt))
         ELSE transformEntries(value.v, <<>>)
    ELSE value
\* Object.entries(value).forEach(([k, v]) =>
\*     { result[this.camelToSnakeCase(k)] = this.transformValue(v); })
\* continued from the entries still to visit and the result built so far.
transformEntries(entries, result) ==
    IF entries = <<>> THEN Obj(result)
    ELSE LET k == camelToSnakeCase(Str(Head(entries)[1])).v
             v == transformValue(Head(entries)[2])
         IN  IF v.t = "throw" THEN Throw
             ELSE transformEntries(Tail(entries), PutKey(result, k, v))

\* ResourceMapper.transformExpression
transformExpression(expression) ==
    IF expression.t = "object" /\ HasKey(expression, S_Ref)
    THEN LET ref == GetKey(expression, S_Ref) IN
         IF ~IsString(ref) THEN Throw    \* ref.startsWith is not a function
         ELSE IF startsWith(ref.v, S_AWS) \/ ref.v = S_AWSRegion \/ ref.v = S_AWSAccountId
         THEN Str(<<Quote>> \o ref.v \o <<Quote>>)
         ELSE sanitizeResourceName(ref)
    ELSE IF expression.t = "object" /\ HasKey(expression, S_FnGetAtt)
    THEN getAttFragment(GetKey(expression, S_FnGetAtt))
    ELSE Str(JsString(expression))

\* ResourceMapper.mapProperties
mapProperties(resourceType, properties) ==
    LET entries == ObjectEntries(properties) IN
    IF entries.t = "throw" THEN Throw ELSE transformEntries(entries.v, <<>>)

(***************************************************************************)
(* TypeMapper: the static lookup tables                                    *)
(***************************************************************************)
S_aws_s3_bucket == <<"a","w","s","_","s","3","_","b","u","c","k","e","t">>
S_aws_iam_role == <<"a","w","s","_","i","a","m","_","r","o","l","e">>
S_aws_lambda_function ==
    <<"a","w","s","_","l","a","m","b","d","a","_","f","u","n","c","t","i","o","n">>
S_aws_dynamodb_table ==
    <<"a","w","s","_","d","y","n","a","m","o","d","b","_","t","a","b","l","e">>

\* The own keys of the resourceTypeMapping object literal
MappedKinds ==
    {"AWS::S3::Bucket", "AWS::IAM::Role", "AWS::Lambda::Function", "AWS::DynamoDB::Table"}

\* resourceTypeMapping is a plain object literal, so a property read also finds
\* the members it inherits from Object.prototype.
ObjectPrototypeMembers ==
    {"constructor", "toString", "toLocaleString", "valueOf", "hasOwnProperty",
     "isPrototypeOf", "propertyIsEnumerable", "__proto__", "__defineGetter__",
     "__defineSetter__", "__lookupGetter__", "__lookupSetter__"}

\* The own entries of the resourceTypeMapping object literal, as the module
\* creates it when it is loaded
KindTable ==
    << <<"AWS::S3::Bucket", Str(S_aws_s3_bucket)>>,
       <<"AWS::IAM::Role", Str(S_aws_iam_role)>>,
       <<"AWS::Lambda::Function", Str(S_aws_lambda_function)>>,
       <<"AWS::DynamoDB::Table", Str(S_aws_dynamodb_table)>> >>

\* this.resourceTypeMapping[kind]: the own entry of the static object if it
\* has one, else the member inherited from Object.prototype, else undefined.
resourceTypeMapping(kind) ==
    IF \E i \in 1..Len(kindTable) : kindTable[i][1] = kind
    THEN kindTable[CHOOSE i \in 1..Len(kindTable) : kindTable[i][1] = kind][2]
    ELSE IF kind = "__proto__" THEN Obj(<<>>)
    ELSE IF kind \in ObjectPrototypeMembers THEN Fun(kind)
    ELSE Undefined

S_string == <<"s","t","r","i","n","g">>
S_number == <<"n","u","m","b","e","r">>
S_list_string == <<"l","i","s","t","(","s","t","r","i","n","g",")">>
S_any == <<"a","n","y">>

\* ResourceMapper.mapParameterType
mapParameterType(cfnType) ==
    CASE cfnType = "String" -> S_string
      [] cfnType = "Number" -> S_number
      [] cfnType = "CommaDelimitedList" -> S_list_string
      [] OTHER -> S_any

(***************************************************************************)
(* Code generator: the TypeScript type of a Terraform type tag             *)
(* (CdktfGenerator, src/generator/index.ts)                                *)
(***************************************************************************)
S_bool == <<"b","o","o","l">>
S_boolean == <<"b","o","o","l","e","a","n">>
S_list == <<"l","i","s","t">>
S_map == <<"m","a","p">>
S_brackets == <<"[","]">>
S_RecordOpen == <<"R","e","c","o","r","d","<","s","t","r","i","n","g",","," ">>
S_RecordClose == <<">">>

\* s.indexOf(sub) + 1: the position of the first occurrence of sub in s, 0 if
\* there is none
IndexOf(s, sub) ==
    LET at(i) == SubSeq(s, i, i + Len(sub) - 1) = sub
        hits  == {i \in 1..(Len(s) - Len(sub) + 1) : at(i)}
    IN  IF hits = {} THEN 0 ELSE CHOOSE i \in hits : \A j \in hits : i <= j

\* s.includes(sub)
includes(s, sub) == IndexOf(s, sub) # 0

\* s.match(/word\((.*)\)/)?.[1] for word = "list" or "map": the match starts
\* at the first "word(" and the greedy group runs to the last ")" of s; the
\* value is undefined when s has no such match.  (Type tags carry no line
\* terminator, the only characters "." does not match.)
matchInner(s, word) ==
    LET open   == IndexOf(s, word \o <<"(">>)
        from   == open + Len(word) + 1
        closes == {j \in 1..Len(s) : s[j] = ")" /\ j >= from}
    IN  IF open = 0 \/ closes = {} THEN Undefined
        ELSE LET last == CHOOSE j \in closes : \A k \in closes : k <= j
             IN  Str(SubSeq(s, from, last - 1))

\* Mutant: the inner type of a list(...) or map(...) wrapper is not mapped.
terraformTypeToTypeScriptFlat(terraformType) ==
    IF ~IsString(terraformType) THEN Throw
    ELSE IF startsWith(terraformType.v, S_string) THEN Str(S_string)
    ELSE IF startsWith(terraformType.v, S_number) THEN Str(S_number)
    ELSE IF startsWith(terraformType.v, S_bool) THEN Str(S_boolean)
    ELSE IF startsWith(terraformType.v, S_list) THEN Str(S_any \o S_brackets)
    ELSE IF startsWith(terraformType.v, S_map)
    THEN Str(S_RecordOpen \o S_any \o S_RecordClose)
    ELSE Str(S_any)

\* CdktfGenerator.terraformTypeToTypeScript; a value without a startsWith
\* method (anything but a string) raises a TypeError.
RECURSIVE terraformTypeToTypeScript(_)
terraformTypeToTypeScript(terraformType) ==
    IF ~IsString(terraformType) THEN Throw
    ELSE IF startsWith(terraformType.v, S_string) THEN Str(S_string)
    ELSE IF startsWith(terraformType.v, S_number) THEN Str(S_number)
    ELSE IF startsWith(terraformType.v, S_bool) THEN Str(S_boolean)
    ELSE IF startsWith(terraformType.v, S_list)
    THEN LET m == matchInner(terraformType.v, S_list)
             innerType == IF Truthy(m) THEN m ELSE Str(S_any)
             inner == terraformTypeToTypeScript(innerType)
         IN  IF inner.t = "throw" THEN Throw ELSE Str(inner.v \o S_brackets)
    ELSE IF startsWith(terraformType.v, S_map)
    THEN LET m == matchInner(terraformType.v, S_map)
             innerType == IF Truthy(m) THEN m ELSE Str(S_any)
             inner == terraformTypeToTypeScript(innerType)
         IN  IF inner.t = "throw" THEN Throw
             ELSE Str(S_RecordOpen \o inner.v \o S_RecordClose)
    ELSE Str(S_any)

(***************************************************************************)
(* Code generator: main.ts (CdktfGenerator.generateTypeScriptMainFile)     *)
(***************************************************************************)
S_fieldIndent == <<" "," ">>
S_publicReadonly == <<" "," ","p","u","b","l","i","c"," ","r","e","a","d","o","n","l","y"," ">>
S_colonSpace == <<":"," ">>
S_semicolon == <<";">>
S_optionalMark == <<"?">>
S_thisDot == <<" "," "," "," ","t","h","i","s",".">>
S_assignPropsOpt == <<" ","="," ","p","r","o","p","s","?",".">>
S_nullish == <<" ","?","?"," ">>
S_assignProps == <<" ","="," ","p","r","o","p","s",".">>
S_const == <<" "," "," "," ","c","o","n","s","t"," ">>
S_newAws == <<" ","="," ","n","e","w"," ","a","w","s",".">>
S_thisArg == <<"(","t","h","i","s",","," ","\"">>
S_openBlock == <<"\"",","," ","{","\n">>
S_closeBlock == <<"\n"," "," "," "," ","}",")",";">>
S_propIndent == <<" "," "," "," "," "," ">>
S_comma == <<",">>
S_newline == <<"\n">>
S_newOutput == <<" "," "," "," ","n","e","w"," ","T","e","r","r","a","f","o","r","m","O","u","t","p","u","t","(","t","h","i","s",","," ","\"">>
S_valueLine == <<" "," "," "," "," "," ","v","a","l","u","e",":"," ">>
S_descriptionLine == <<",","\n"," "," "," "," "," "," ","d","e","s","c","r","i","p","t","i","o","n",":"," ">>
S_closeOutput == <<",","\n"," "," "," "," ","}",")",";">>
S_dot == <<".">>
S_underscore == <<"_">>

\* One character of String.prototype.toUpperCase (ASCII letters)
toUpperCaseChar(c) ==
    IF IsLower(c)
    THEN UpperChars[CHOOSE i \in 1..26 : LowerChars[i] = c]
    ELSE c

\* s.split('_'): the pieces between the underscores (at least one piece)
RECURSIVE split(_)
split(s) ==
    LET cut == IndexOf(s, S_underscore) IN
    IF cut = 0 THEN <<s>>
    ELSE <<SubSeq(s, 1, cut - 1)>> \o split(SubSeq(s, cut + 1, Len(s)))

\* pieces.join(sep)
RECURSIVE join(_, _)
join(pieces, sep) ==
    IF pieces = <<>> THEN <<>>
    ELSE IF Len(pieces) = 1 THEN Head(pieces)
    ELSE Head(pieces) \o sep \o join(Tail(pieces), sep)

\* CdktfGenerator.pascalCase; a value without a split method (anything but a
\* string) raises a TypeError.
pascalCase(str) ==
    IF ~IsString(str) THEN Throw
    ELSE LET parts == split(str.v)
             capitalised ==
                 [i \in 1..Len(parts) |->
                    IF parts[i] = <<>> THEN <<>>
                    ELSE <<toUpperCaseChar(Head(parts[i]))>> \o Tail(parts[i])]
         IN  Str(join(capitalised, <<>>))

\* The characters of a string inside a JSON string literal
RECURSIVE jsonEscape(_)
jsonEscape(s) ==
    IF s = <<>> THEN <<>>
    ELSE (IF Head(s) \in {Quote, "\\"} THEN <<"\\", Head(s)>>
          ELSE IF Head(s) = "\n" THEN <<"\\", "n">>
          ELSE <<Head(s)>>)
         \o jsonEscape(Tail(s))

\* JSON.stringify(val): undefined for undefined and for a function; inside an
\* array these give null, inside an object their member is left out.
RECURSIVE JSONStringify(_)
RECURSIVE jsonMembers(_)
JSONStringify(val) ==
    CASE val.t = "string"  -> Str(<<Quote>> \o jsonEscape(val.v) \o <<Quote>>)
      [] val.t = "number"  -> Str(NatToStr(val.v))
      [] val.t = "boolean" -> Str(IF val.v THEN S_true ELSE S_false)
      [] val.t = "null"    -> Str(S_null)
      [] val.t = "array"   ->
            Str(<<"[">>
                \o join([i \in 1..Len(val.v) |->
                           IF JSONStringify(val.v[i]).t = "string"
                           THEN JSONStringify(val.v[i]).v ELSE S_null],
                        S_comma)
                \o <<"]">>)
      [] val.t = "object"  -> Str(<<"{">> \o join(jsonMembers(val.v), S_comma) \o <<"}">>)
      [] OTHER -> Undefined
jsonMembers(entries) ==
    IF entries = <<>> THEN <<>>
    ELSE LET text == JSONStringify(Head(entries)[2])
         IN  (IF text.t = "string"
              THEN << <<Quote>> \o jsonEscape(Head(entries)[1]) \o <<Quote>>
                      \o <<":">> \o text.v >>
              ELSE <<>>)
             \o jsonMembers(Tail(entries))

\* The test both emitters apply to a value before printing it raw:
\*   typeof value === 'string' && (value.includes('props.') || value.includes('.'))
printedRaw(value) ==
    IsString(value) /\ (includes(value.v, S_props) \/ includes(value.v, S_dot))

\* The text a value is printed as: raw, or `${JSON.stringify(value)}`
printValue(value) ==
    IF printedRaw(value) THEN value.v ELSE JsString(JSONStringify(value))

\* CdktfGenerator.generateTypeScriptResource
generateTypeScriptResource(resource) ==
    LET entries == resource.properties.v
        properties ==
            join([i \in 1..Len(entries) |->
                    S_propIndent \o entries[i][1] \o S_colonSpace
                    \o printValue(entries[i][2]) \o S_comma],
                 S_newline)
        className == pascalCase(resource.type)
    IN  IF className.t = "throw" THEN Throw
        ELSE Str(S_const \o resource.name.v \o S_newAws \o className.v
                 \o S_thisArg \o resource.name.v \o S_openBlock
                 \o properties \o S_closeBlock)

\* Mutant: the default is tested for truthiness.
requiredTruthy(variable) == ~Truthy(variable.default)

\* const required = (variable as any).default === undefined; the constructor
\* tests the negation, defaultValue !== undefined.
required(variable) == variable.default = Undefined

\* variable.type || 'string'
varTypeOf(variable) ==
    IF variable.type # <<>> THEN Str(variable.type) ELSE Str(S_string)

\* CdktfGenerator.generateTypeScriptMainFile: the generated parts of the file
\* (the class fields, the constructor's initialisers, the resources, the
\* outputs and the fields of the props interface), which the function joins
\* into the fixed text of main.ts.
generateTypeScriptMainFile(cfg) ==
    LET vs == cfg.variables
        fields ==
            [i \in 1..Len(vs) |->
               S_publicReadonly \o vs[i][1] \o S_colonSpace
               \o terraformTypeToTypeScript(varTypeOf(vs[i][2])).v \o S_semicolon]
        variableInitializers ==
            [i \in 1..Len(vs) |->
               LET defaultValue == vs[i][2].default IN
               IF ~required(vs[i][2])
               THEN S_thisDot \o vs[i][1] \o S_assignPropsOpt \o vs[i][1]
                    \o S_nullish \o JsString(JSONStringify(defaultValue)) \o S_semicolon
               ELSE S_thisDot \o vs[i][1] \o S_assignProps \o vs[i][1] \o S_semicolon]
        emitted ==
            [i \in 1..Len(cfg.resources) |-> generateTypeScriptResource(cfg.resources[i])]
        outs ==
            [i \in 1..Len(cfg.outputs) |->
               S_newOutput \o cfg.outputs[i][1] \o S_openBlock
               \o S_valueLine \o printValue(cfg.outputs[i][2].value)
               \o S_descriptionLine
               \o JsString(JSONStringify(cfg.outputs[i][2].description))
               \o S_closeOutput]
        interface ==
            [i \in 1..Len(vs) |->
               S_fieldIndent \o vs[i][1]
               \o (IF required(vs[i][2]) THEN <<>> ELSE S_optionalMark)
               \o S_colonSpace
               \o terraformTypeToTypeScript(varTypeOf(vs[i][2])).v \o S_semicolon]
    IN  IF \E i \in 1..Len(emitted) : emitted[i].t = "throw"
        THEN Throw
        ELSE [t |-> "file",
              v |-> [fields |-> fields,
                     initializers |-> variableInitializers,
                     resources |-> [i \in 1..Len(emitted) |-> emitted[i].v],
                     outputs |-> outs,
                     interface |-> interface]]

(***************************************************************************)
(* GraphMapper                                                             *)
(***************************************************************************)

\* Mutant: a lone DependsOn identifier is passed through, not wrapped.
mapResourceNoWrap(name, resource) ==
    LET terraformType == resourceTypeMapping(resource.Type) IN
    IF ~Truthy(terraformType)
    THEN [outcome |-> "null", resource |-> Null, warn |-> <<resource.Type>>]
    ELSE LET properties == mapProperties(resource.Type, resource.Properties)
             dependencies ==
                 IF Truthy(resource.DependsOn) THEN resource.DependsOn ELSE Undefined
         IN  IF properties.t = "throw"
             THEN [outcome |-> "throw", resource |-> Null, warn |-> <<>>]
             ELSE [outcome |-> "resource",
                   resource |-> [type |-> terraformType,
                                 name |-> sanitizeResourceName(Str(name)),
                                 properties |-> properties,
                                 dependencies |-> dependencies],
                   warn |-> <<>>]

\* Mutant: an empty DependsOn sequence counts as no declaration.
mapResourceEmptyAbsent(name, resource) ==
    LET terraformType == resourceTypeMapping(resource.Type) IN
    IF ~Truthy(terraformType)
    THEN [outcome |-> "null", resource |-> Null, warn |-> <<resource.Type>>]
    ELSE LET properties == mapProperties(resource.Type, resource.Properties)
             dependencies ==
                 IF Truthy(resource.DependsOn) /\ resource.DependsOn # Arr(<<>>)
                 THEN (IF resource.DependsOn.t = "array"
                       THEN resource.DependsOn
                       ELSE Arr(<<resource.DependsOn>>))
                 ELSE Undefined
         IN  IF properties.t = "throw"
             THEN [outcome |-> "throw", resource |-> Null, warn |-> <<>>]
             ELSE [outcome |-> "resource",
                   resource |-> [type |-> terraformType,
                                 name |-> sanitizeResourceName(Str(name)),
                                 properties |-> properties,
                                 dependencies |-> dependencies],
                   warn |-> <<>>]

\* ResourceMapper.mapResource(name, resource).  outcome is "null" (return
\* null), "throw" (a TypeError left the call) or "resource" (the object
\* returned, in resource); warn holds the kinds console.warn was called with.
mapResource(name, resource) ==
    LET terraformType == resourceTypeMapping(resource.Type) IN
    IF ~Truthy(terraformType)
    THEN [outcome |-> "null", resource |-> Null, warn |-> <<resource.Type>>]
    ELSE LET properties == mapProperties(resource.Type, resource.Properties)
             dependencies ==
                 IF Truthy(resource.DependsOn)
                 THEN (IF resource.DependsOn.t = "array"
                       THEN resource.DependsOn
                       ELSE Arr(<<resource.DependsOn>>))
                 ELSE Undefined
         IN  IF properties.t = "throw"
             THEN [outcome |-> "throw", resource |-> Null, warn |-> <<>>]
             ELSE [outcome |-> "resource",
                   resource |-> [type |-> terraformType,
                                 name |-> sanitizeResourceName(Str(name)),
                                 properties |-> properties,
                                 dependencies |-> dependencies],
                   warn |-> <<>>]

\* Object.entries(template.Parameters).forEach(([name, param]) =>
\*     { variables[name] = { type, default, description }; })
\* continued from the entries still to visit and the variables built so far.
RECURSIVE mapParameterEntries(_, _)
mapParameterEntries(entries, result) ==
    IF entries = <<>> THEN result
    ELSE LET name  == Head(entries)[1]
             param == Head(entries)[2]
         IN  mapParameterEntries(Tail(entries),
                 PutKey(result, name, [type |-> mapParameterType(param.Type),
                                       default |-> param.Default,
                                       description |-> param.Description]))

\* Object.entries(template.Outputs).forEach(([name, output]) =>
\*     { outputs[name] = { value, description }; })
\* continued from the entries still to visit and the outputs built so far.
RECURSIVE mapOutputEntries(_, _)
mapOutputEntries(entries, result) ==
    IF entries = <<>> THEN result
    ELSE LET name   == Head(entries)[1]
             output == Head(entries)[2]
         IN  mapOutputEntries(Tail(entries),
                 PutKey(result, name, [value |-> transformExpression(output.Value),
                                       description |-> output.Description]))

\* mapTemplate, "Map parameters to variables": the whole forEach.
MapParameters ==
    /\ pc = "start"
    /\ variables' =
          IF Truthy(template.Parameters)
          THEN mapParameterEntries(template.Parameters.v, <<>>)
          ELSE <<>>
    /\ pc' = "resources"
    /\ UNCHANGED <<template, idx, resources, outputs, warnings>>
    /\ UNCHANGED <<sanVars, resVars, extVars>>
    /\ UNCHANGED moreVars

\* mapTemplate, "Map resources": one iteration of the forEach over
\* Object.entries(template.Resources); a template without a Resources
\* section makes Object.entries raise a TypeError.
MapResource ==
    /\ pc = "resources"
    /\ IF ObjectEntries(template.Resources).t = "throw"
       THEN TRUE
       ELSE idx <= Len(template.Resources.v)
    /\ IF ObjectEntries(template.Resources).t = "throw"
       THEN /\ pc' = "threw"
            /\ UNCHANGED <<idx, resources, warnings>>
       ELSE LET entry == template.Resources.v[idx]
                terraformResource == mapResource(entry[1], entry[2])
            IN  /\ warnings' = warnings \o terraformResource.warn
                /\ IF terraformResource.outcome = "throw"
                   THEN /\ pc' = "threw"
                        /\ UNCHANGED <<idx, resources>>
                   ELSE /\ resources' =
                              IF terraformResource.outcome = "resource"
                              THEN Append(resources, terraformResource.resource)
                              ELSE resources
                        /\ idx' = idx + 1
                        /\ pc' = pc
    /\ UNCHANGED <<template, variables, outputs>>
    /\ UNCHANGED <<sanVars, resVars, extVars>>
    /\ UNCHANGED moreVars

\* mapTemplate, "Map outputs" and the return statement: the whole forEach
\* over Object.entries(template.Outputs), then return.
MapOutputs ==
    /\ pc = "resources"
    /\ ObjectEntries(template.Resources).t # "throw"
    /\ idx > Len(template.Resources.v)
    /\ LET entries == IF Truthy(template.Outputs) THEN template.Outputs.v ELSE <<>>
       IN  IF \E i \in 1..Len(entries) :
                  transformExpression(entries[i][2].Value).t = "throw"
           THEN pc' = "threw" /\ UNCHANGED outputs
           ELSE pc' = "done" /\ outputs' = mapOutputEntries(entries, <<>>)
    /\ UNCHANGED <<template, idx, resources, variables, warnings>>
    /\ UNCHANGED <<sanVars, resVars, extVars>>
    /\ UNCHANGED moreVars

(***************************************************************************)
(* Source templates the mapper is run on                                   *)
(***************************************************************************)
N_Ab == <<"A","b">>
N_ab == <<"a","b">>
N_A_b == <<"A","-","b">>
S_Arn == <<"A","r","n">>
S_Name == <<"N","a","m","e">>
S_Out == <<"O","u","t">>
S_BucketName == <<"B","u","c","k","e","t","N","a","m","e">>
S_MyS3Bucket == <<"M","y","S","3","B","u","c","k","e","t">>
S_BucketArn == <<"B","u","c","k","e","t","A","r","n">>
S_my_sample_bucket ==
    <<"m","y","-","s","a","m","p","l","e","-","b","u","c","k","e","t">>

Ref(name) == Obj(<< <<S_Ref, name>> >>)
GetAtt(arg) == Obj(<< <<S_FnGetAtt, arg>> >>)

\* Logical names a generated template gives its resources
ResourceNames == {N_Ab, N_ab, N_A_b}

\* Resource declarations of the generated templates: each supported kind, an
\* unsupported kind, a kind naming an inherited member of the lookup object
\* (with and without a Properties section), and mapped-kind resources whose
\* Properties make the resolver raise.
ResourceDecls ==
    { [Type |-> "AWS::S3::Bucket",
       Properties |-> Obj(<< <<S_Name, Ref(Str(N_Ab))>> >>),
       DependsOn |-> Undefined],
      [Type |-> "AWS::IAM::Role",
       Properties |-> Obj(<<>>),
       DependsOn |-> Str(N_Ab)],
      [Type |-> "AWS::Lambda::Function",
       Properties |-> Obj(<< <<S_Name, GetAtt(Arr(<<Str(N_Ab), Str(S_Arn)>>))>> >>),
       DependsOn |-> Arr(<<Str(N_Ab), Str(N_A_b)>>)],
      [Type |-> "AWS::DynamoDB::Table",
       Properties |-> Obj(<< <<S_Name, Ref(Str(S_AWSRegion))>> >>),
       DependsOn |-> Undefined],
      [Type |-> "AWS::EC2::Instance",
       Properties |-> Obj(<< <<S_Name, GetAtt(Arr(<<Str(N_Ab)>>))>> >>),
       DependsOn |-> Undefined],
      [Type |-> "constructor",
       Properties |-> Obj(<<>>),
       DependsOn |-> Undefined],
      [Type |-> "AWS::S3::Bucket",
       Properties |-> Obj(<< <<S_Name, GetAtt(Arr(<<Str(N_Ab)>>))>> >>),
       DependsOn |-> Undefined],
      [Type |-> "AWS::S3::Bucket",
       Properties |-> Undefined,
       DependsOn |-> Undefined],
      [Type |-> "constructor",
       Properties |-> Undefined,
       DependsOn |-> Undefined] }

ResourceEntries == {<<n, d>> : n \in ResourceNames, d \in ResourceDecls}

\* The entry sequences of at most n resources with pairwise distinct names
\* (the keys of one object are distinct).
RECURSIVE ResourceLists(_)
ResourceLists(n) ==
    IF n = 0 THEN {<<>>}
    ELSE LET shorter == ResourceLists(n - 1)
         IN  shorter \cup
             {Append(p[1], p[2]) :
                p \in {q \in shorter \X ResourceEntries :
                         \A i \in 1..Len(q[1]) : q[1][i][1] # q[2][1]}}

ParameterChoices ==
    { Undefined,
      Obj(<< <<N_Ab, [Type |-> "String",
                      Default |-> Str(S_my_sample_bucket),
                      Description |-> Str(S_Name)]>> >>),
      Obj(<< <<N_ab, [Type |-> "Number",
                      Default |-> Undefined,
                      Description |-> Undefined]>> >>),
      Obj(<< <<N_Ab, [Type |-> "CommaDelimitedList",
                      Default |-> Null,
                      Description |-> Undefined]>>,
             <<S_proto, [Type |-> "AWS::EC2::KeyPair::KeyName",
                         Default |-> Undefined,
                         Description |-> Undefined]>> >>) }

OutputChoices ==
    { Undefined,
      Obj(<< <<S_Out, [Value |-> GetAtt(Arr(<<Str(N_Ab), Str(S_Arn)>>)),
                       Description |-> Str(S_Name)]>> >>),
      Obj(<< <<S_Out, [Value |-> Ref(Str(N_Ab)), Description |-> Undefined]>> >>),
      Obj(<< <<S_Out, [Value |-> Ref(Str(S_AWSRegion)), Description |-> Undefined]>> >>),
      Obj(<< <<S_Out, [Value |-> GetAtt(Arr(<<Str(N_Ab)>>)),
                       Description |-> Undefined]>> >>) }

\* sample-templates/s3-bucket.yaml as the loader hands it over, reduced to the
\* BucketName property and the BucketArn output.
SampleTemplate ==
    [Parameters |->
        Obj(<< <<S_BucketName, [Type |-> "String",
                                Default |-> Str(S_my_sample_bucket),
                                Description |-> Str(S_Name)]>> >>),
     Resources |->
        Obj(<< <<S_MyS3Bucket, [Type |-> "AWS::S3::Bucket",
                                Properties |->
                                    Obj(<< <<S_BucketName, Ref(Str(S_BucketName))>> >>),
                                DependsOn |-> Undefined]>> >>),
     Outputs |->
        Obj(<< <<S_BucketArn, [Value |-> GetAtt(Arr(<<Str(S_MyS3Bucket), Str(S_Arn)>>)),
                               Description |-> Str(S_Name)]>> >>)]

\* A document without a Resources section
NoResourcesTemplate ==
    [Parameters |-> Undefined, Resources |-> Undefined, Outputs |-> Undefined]

Templates ==
    {[Parameters |-> p, Resources |-> Obj(l), Outputs |-> o] :
        p \in ParameterChoices, l \in ResourceLists(MaxResources), o \in OutputChoices}
    \cup {SampleTemplate, NoResourcesTemplate}

\* The mapper before mapTemplate is entered / when it is not used.
MapperIdle ==
    /\ template = NoResourcesTemplate
    /\ pc = "idle"
    /\ idx = 1
    /\ resources = <<>>
    /\ variables = <<>>
    /\ outputs = <<>>
    /\ warnings = <<>>

(***************************************************************************)
(* Driver of the resolver on single value trees                            *)
(***************************************************************************)
S_AbDotCd == <<"A","b",".","C","d">>
S_aB == <<"a","B">>
S_ADotB == <<"A",".","B">>

S_A == <<"A">>
S_a == <<"_","a">>
S_FnSub == <<"F","n",":",":","S","u","b">>
S_FnJoin == <<"F","n",":",":","J","o","i","n">>
S_SubText == <<"$","{","A","b","}","-","x">>

Sub(arg) == Obj(<< <<S_FnSub, arg>> >>)
Join(arg) == Obj(<< <<S_FnJoin, arg>> >>)

ScalarNodes == {Str(N_Ab), Str(S_AbDotCd), Str(<<>>), Num(1), Bool(TRUE), Null, Undefined}

\* Ref nodes: to pseudo-parameters and to declared names, and with an
\* argument that is not a string
ReferenceNodes ==
    {Ref(Str(n)) : n \in {S_AWSRegion, S_AWSAccountId, N_Ab, N_A_b, S_BucketName}}
    \cup {Ref(Num(1)), Ref(Null), Ref(Arr(<<Str(N_Ab)>>))}

\* Fn::Sub and Fn::Join nodes, without and with Ref / Fn::GetAtt nodes among
\* their arguments
InterpolationNodes ==
    { Sub(Str(S_SubText)),
      Sub(Arr(<<Str(S_SubText), Obj(<< <<N_Ab, Ref(Str(S_BucketName))>> >>)>>)),
      Join(Arr(<<Str(<<"-">>), Arr(<<Str(N_Ab), Str(N_ab)>>)>>)),
      Join(Arr(<<Str(<<"-">>), Arr(<<Ref(Str(N_Ab)), Str(N_ab)>>)>>)),
      Join(Arr(<<Str(<<>>), Arr(<<GetAtt(Arr(<<Str(N_Ab), Str(S_Arn)>>))>>)>>)) }

\* Fn::GetAtt nodes: the two-element form, the delimited-string form, and
\* arguments with fewer or more parts.
AttributeNodes ==
    {GetAtt(Arr(<<Str(r), Str(a)>>)) : r \in {N_Ab, N_A_b}, a \in {S_Arn, S_aB, S_ADotB}}
    \cup {GetAtt(Str(S_AbDotCd)), GetAtt(Arr(<<Str(N_Ab)>>)), GetAtt(Arr(<<>>)),
          GetAtt(Arr(<<Str(N_Ab), Str(S_Arn), Str(S_aB)>>))}

\* Mappings: empty, literal ones (two of them with keys that
\* camelToSnakeCase sends to one key, or to the key "__proto__"), one
\* holding a Ref, and two with a marker key among several keys
MappingNodes ==
    { Obj(<<>>),
      Obj(<< <<S_Name, Str(N_Ab)>> >>),
      Obj(<< <<S_Name, Num(1)>>, <<S_Arn, Ref(Str(N_Ab))>> >>),
      Obj(<< <<S_Name, Arr(<<Num(1), Str(N_Ab)>>)>>, <<S_aB, Bool(TRUE)>> >>),
      Obj(<< <<S_A, Num(1)>>, <<S_a, Str(N_Ab)>> >>),
      Obj(<< <<S_proto, Num(1)>>, <<S_Name, Str(N_Ab)>> >>),
      Obj(<< <<S_Ref, Str(N_Ab)>>, <<S_Name, Num(1)>> >>),
      Obj(<< <<S_Name, Str(N_ab)>>, <<S_FnGetAtt, Arr(<<Str(N_Ab), Str(S_Arn)>>)>> >>) }

BaseNodes ==
    ScalarNodes \cup ReferenceNodes \cup AttributeNodes \cup MappingNodes
    \cup InterpolationNodes

\* One more level of literal structure around a tree
Wrap(n) == {Arr(<<n>>), Arr(<<Str(N_Ab), n>>), Obj(<< <<S_Name, n>> >>)}

RECURSIVE NodesUpTo(_)
NodesUpTo(d) ==
    IF d = 0 THEN BaseNodes
    ELSE BaseNodes \cup UNION {Wrap(n) : n \in NodesUpTo(d - 1)}

ResolverIdle ==
    /\ node = Null
    /\ asValue = Pending
    /\ asExpr = Pending

\* The node resolved in property position
ResolveProperty ==
    /\ asValue = Pending
    /\ asValue' = transformValue(node)
    /\ UNCHANGED <<node, asExpr>>
    /\ UNCHANGED <<sanVars, mapVars, extVars>>
    /\ UNCHANGED moreVars

\* The node resolved in output position
ResolveOutput ==
    /\ asExpr = Pending
    /\ asExpr' = transformExpression(node)
    /\ UNCHANGED <<node, asValue>>
    /\ UNCHANGED <<sanVars, mapVars, extVars>>
    /\ UNCHANGED moreVars

(***************************************************************************)
(* Driver of the dependency normalisation of mapResource                   *)
(***************************************************************************)

\* DependsOn values a resource can declare: none, a lone identifier (the
\* empty string included), and sequences of identifiers.
DependsOnInputs ==
    {Undefined, Arr(<<>>)}
    \cup {Str(s) : s \in StringsUpTo(MaxLen)}
    \cup {Arr(<<Str(a)>>) : a \in ResourceNames}
    \cup {Arr(<<Str(a), Str(b)>>) : a \in ResourceNames, b \in ResourceNames}

\* A resource of a supported kind declaring the dependency d
DeclaringResource(d) ==
    [Type |-> "AWS::S3::Bucket", Properties |-> Obj(<<>>), DependsOn |-> d]

DependsIdle ==
    /\ dep = Undefined
    /\ deps = Pending
    /\ depsSeq = Pending

\* mapResource on a resource declaring DependsOn: dep
NormalizeDeclared ==
    /\ deps = Pending
    /\ deps' = mapResource(N_Ab, DeclaringResource(dep)).resource.dependencies
    /\ UNCHANGED <<dep, depsSeq>>
    /\ UNCHANGED <<sanVars, mapVars, resVars, typVars, genVars, callVars>>
    /\ UNCHANGED moreVars

\* mapResource on a resource declaring DependsOn: [dep], dep an identifier
NormalizeAsSequence ==
    /\ depsSeq = Pending
    /\ IsString(dep)
    /\ depsSeq' =
          mapResource(N_Ab, DeclaringResource(Arr(<<dep>>))).resource.dependencies
    /\ UNCHANGED <<dep, deps>>
    /\ UNCHANGED <<sanVars, mapVars, resVars, typVars, genVars, callVars>>
    /\ UNCHANGED moreVars

(***************************************************************************)
(* Driver of terraformTypeToTypeScript on single type tags                 *)
(***************************************************************************)
MaxNest == 2         \* deepest nesting of list(...) / map(...) wrappers

S_object == <<"o","b","j","e","c","t">>
S_String == <<"S","t","r","i","n","g">>
S_strings == <<"s","t","r","i","n","g","s">>
S_listOpenString == <<"l","i","s","t","(","s","t","r","i","n","g">>
S_map_number == <<"m","a","p","(","n","u","m","b","e","r",")">>

\* Tags without a wrapper: the recognised ones, unrecognised ones, the empty
\* tag, and wrapper words without (complete) parentheses.
BaseTags ==
    {S_string, S_number, S_bool, S_any, S_object, S_String, S_strings, <<>>,
     S_list, S_map, S_listOpenString}

ListOf(tag) == S_list \o <<"(">> \o tag \o <<")">>
MapOf(tag) == S_map \o <<"(">> \o tag \o <<")">>

RECURSIVE TagsUpTo(_)
TagsUpTo(n) ==
    IF n = 0 THEN BaseTags
    ELSE LET inner == TagsUpTo(n - 1)
         IN  BaseTags \cup {ListOf(g) : g \in inner} \cup {MapOf(g) : g \in inner}

TypeIdle ==
    /\ tfType = <<>>
    /\ tsType = Pending

\* terraformTypeToTypeScript(tfType)
MapScalarType ==
    /\ tsType = Pending
    /\ tsType' = terraformTypeToTypeScript(Str(tfType))
    /\ UNCHANGED tfType
    /\ UNCHANGED <<sanVars, mapVars, resVars, depVars, genVars, callVars>>
    /\ UNCHANGED moreVars

(***************************************************************************)
(* Driver of the code generator on single configurations                   *)
(***************************************************************************)
S_ab_arn == <<"a","b",".","_","a","r","n">>
S_name == <<"n","a","m","e">>

\* Default values a TargetVariable can carry: none, and declared ones
VariableDefaults ==
    {Undefined, Null, Bool(FALSE), Num(0), Str(<<>>), Str(S_my_sample_bucket)}

\* The images of mapParameterType
VariableTypes == {S_string, S_number, S_list_string, S_any}

TargetVariables ==
    {[type |-> ty, default |-> d, description |-> Undefined] :
        ty \in VariableTypes, d \in VariableDefaults}

\* The variables maps of the generated configurations: no variable, one
\* variable, and two variables of which the second is a string.
ConfigVariables ==
    {<<>>}
    \cup {<< <<N_Ab, v>> >> : v \in TargetVariables}
    \cup {<< <<N_Ab, v>>, <<N_ab, w>> >> :
            v \in TargetVariables,
            w \in {u \in TargetVariables : u.type = S_string /\ u.default \in {Undefined, Null}}}

ConfigResources ==
    { <<>>,
      << [type |-> Str(S_aws_s3_bucket), name |-> Str(N_ab),
          properties |-> Obj(<< <<S_name, Str(S_props \o N_Ab)>>,
                                <<S_ab_arn, Str(S_my_sample_bucket)>> >>),
          dependencies |-> Undefined] >>,
      << [type |-> Fun("constructor"), name |-> Str(N_ab),
          properties |-> Obj(<<>>),
          dependencies |-> Undefined] >> }

ConfigOutputs ==
    { <<>>,
      << <<S_Out, [value |-> Str(S_ab_arn), description |-> Str(S_Name)]>> >>,
      << <<S_Out, [value |-> Str(N_ab), description |-> Undefined]>> >> }

EmptyConfig == [resources |-> <<>>, variables |-> <<>>, outputs |-> <<>>]

Configs ==
    {[resources |-> r, variables |-> v, outputs |-> o] :
        r \in ConfigResources, v \in ConfigVariables, o \in ConfigOutputs}

GeneratorIdle ==
    /\ config = EmptyConfig
    /\ mainFile = Pending

\* generateTypeScriptMainFile(config)
GenerateMainFile ==
    /\ mainFile = Pending
    /\ mainFile' = generateTypeScriptMainFile(config)
    /\ UNCHANGED config
    /\ UNCHANGED <<sanVars, mapVars, resVars, depVars, typVars, callVars>>
    /\ UNCHANGED moreVars

(***************************************************************************)
(* Repeated calls of mapTemplate                                           *)
(***************************************************************************)
MaxCalls == 3        \* most calls of mapTemplate in one run

\* Templates of the repeated calls: the sample, one with an unsupported
\* kind, one with dependencies, one whose mapping raises, and a document
\* without Resources.
CallTemplates ==
    { SampleTemplate,
      NoResourcesTemplate,
      [Parameters |-> Undefined,
       Resources |-> Obj(<< <<N_Ab, [Type |-> "AWS::EC2::Instance",
                                     Properties |-> Obj(<<>>),
                                     DependsOn |-> Undefined]>> >>),
       Outputs |-> Undefined],
      [Parameters |-> Undefined,
       Resources |-> Obj(<< <<N_Ab, [Type |-> "AWS::IAM::Role",
                                     Properties |-> Obj(<<>>),
                                     DependsOn |-> Undefined]>>,
                            <<N_ab, [Type |-> "AWS::Lambda::Function",
                                     Properties |-> Obj(<<>>),
                                     DependsOn |-> Arr(<<Str(N_Ab)>>)]>> >>),
       Outputs |-> Obj(<< <<S_Out, [Value |-> Ref(Str(N_Ab)),
                                    Description |-> Undefined]>> >>)],
      [Parameters |-> Undefined,
       Resources |-> Obj(<< <<N_Ab, [Type |-> "AWS::S3::Bucket",
                                     Properties |-> Undefined,
                                     DependsOn |-> Undefined]>> >>),
       Outputs |-> Undefined] }

CallsIdle ==
    /\ kindTable = KindTable
    /\ history = <<>>

\* mapTemplate returns (or its exception leaves the call): the caller holds
\* the template it passed and what it got back.
ReturnToCaller ==
    /\ pc \in {"done", "threw"}
    /\ history' = Append(history,
                         [template |-> template,
                          outcome  |-> pc,
                          model    |-> IF pc = "done"
                                       THEN <<resources, variables, outputs>>
                                       ELSE <<>>])
    /\ pc' = "returned"
    /\ UNCHANGED <<template, idx, resources, variables, outputs, warnings, kindTable>>
    /\ UNCHANGED <<sanVars, resVars, depVars, typVars, genVars>>
    /\ UNCHANGED moreVars

\* Mutant: the resources array is a static member, not a local of the call.
CallMapTemplateSharedResources ==
    /\ pc = "returned"
    /\ Len(history) < MaxCalls
    /\ template' \in CallTemplates
    /\ pc' = "start"
    /\ idx' = 1
    /\ variables' = <<>>
    /\ outputs' = <<>>
    /\ UNCHANGED <<resources, warnings, kindTable, history>>
    /\ UNCHANGED <<sanVars, resVars, depVars, typVars, genVars>>
    /\ UNCHANGED moreVars

\* The next call of mapTemplate: its locals resources, variables and outputs
\* are created empty.
CallMapTemplate ==
    /\ pc = "returned"
    /\ Len(history) < MaxCalls
    /\ template' \in CallTemplates
    /\ pc' = "start"
    /\ idx' = 1
    /\ resources' = <<>>
    /\ variables' = <<>>
    /\ outputs' = <<>>
    /\ UNCHANGED <<warnings, kindTable, history>>
    /\ UNCHANGED <<sanVars, resVars, depVars, typVars, genVars>>
    /\ UNCHANGED moreVars

\* The drivers not used by a specification
DriversIdle ==
    /\ DependsIdle
    /\ TypeIdle
    /\ GeneratorIdle

(***************************************************************************)
(* terraformTypeToTypeScript call by call: every recursive call is a step  *)
(***************************************************************************)

\* Mutant: a wrapper word without parentheses falls back to the word itself.
innerTypeOrWord(s, word) ==
    LET m == matchInner(s, word) IN IF Truthy(m) THEN m.v ELSE word

\* terraformType.match(/word\((.*)\)/)?.[1] || 'any'
innerTypeOrAny(s, word) ==
    LET m == matchInner(s, word) IN IF Truthy(m) THEN m.v ELSE S_any

\* The branch of terraformTypeToTypeScript a tag takes: the word of the
\* wrapper branch that makes a recursive call, or <<>> for a branch that
\* returns at once
wrapperWord(s) ==
    IF startsWith(s, S_string) \/ startsWith(s, S_number) \/ startsWith(s, S_bool)
    THEN <<>>
    ELSE IF startsWith(s, S_list) THEN S_list
    ELSE IF startsWith(s, S_map) THEN S_map
    ELSE <<>>

\* What a branch without recursive call returns
scalarTypeOf(s) ==
    IF startsWith(s, S_string) THEN S_string
    ELSE IF startsWith(s, S_number) THEN S_number
    ELSE IF startsWith(s, S_bool) THEN S_boolean
    ELSE S_any

\* What the waiting calls, innermost last, make of the text returned to them:
\* `${inner}[]` for list, `Record<string, ${inner}>` for map
RECURSIVE returnThrough(_, _)
returnThrough(text, waiting) ==
    IF waiting = <<>> THEN text
    ELSE LET word == waiting[Len(waiting)]
             wrapped == IF word = S_list THEN text \o S_brackets
                        ELSE S_RecordOpen \o text \o S_RecordClose
         IN  returnThrough(wrapped, SubSeq(waiting, 1, Len(waiting) - 1))

\* The list or map branch calls this.terraformTypeToTypeScript(innerType).
\* (The exploration stops one call after the depth passes the input length.)
CallInnerType ==
    /\ tsType = Pending
    /\ wrapperWord(tsArg) # <<>>
    /\ tsDepth <= Len(tfType)
    /\ tsArg' = innerTypeOrAny(tsArg, wrapperWord(tsArg))
    /\ tsDepth' = tsDepth + 1
    /\ tsWrap' = Append(tsWrap, wrapperWord(tsArg))
    /\ UNCHANGED <<tfType, tsType>>
    /\ UNCHANGED <<sanVars, mapVars, resVars, depVars, genVars, callVars>>
    /\ UNCHANGED <<codeVars, cliVars, loadVars>>

\* A branch without recursive call returns, and so do the calls waiting
ReturnType ==
    /\ tsType = Pending
    /\ wrapperWord(tsArg) = <<>>
    /\ tsType' = Str(returnThrough(scalarTypeOf(tsArg), tsWrap))
    /\ UNCHANGED <<tfType, tsArg, tsDepth, tsWrap>>
    /\ UNCHANGED <<sanVars, mapVars, resVars, depVars, genVars, callVars>>
    /\ UNCHANGED <<codeVars, cliVars, loadVars>>

(***************************************************************************)
(* A resolved value carried through to the generated file                  *)
(***************************************************************************)

\* The configuration mapTemplate hands to the generator for a template with
\* one bucket whose property Name resolved to value, and one output whose
\* Value resolved to expr
configOf(value, expr) ==
    [resources |-> << [type |-> Str(S_aws_s3_bucket), name |-> Str(N_ab),
                       properties |-> Obj(<< <<S_name, value>> >>),
                       dependencies |-> Undefined] >>,
     variables |-> <<>>,
     outputs |-> << <<S_Out, [value |-> expr, description |-> Undefined]>> >>]

\* generateTypeScriptMainFile applied to the configuration of the resolved
\* values; a resolution that raised leaves mapTemplate without configuration.
EmitResolved ==
    /\ mainFile = Pending
    /\ asValue \notin {Pending, Throw}
    /\ asExpr \notin {Pending, Throw}
    /\ config' = configOf(asValue, asExpr)
    /\ mainFile' = generateTypeScriptMainFile(config')
    /\ UNCHANGED resVars
    /\ UNCHANGED <<sanVars, mapVars, depVars, typVars, callVars>>
    /\ UNCHANGED moreVars

(***************************************************************************)
(* CdktfGenerator.generateCode and the files it writes                     *)
(***************************************************************************)

\* The fixed texts the generator writes: JSON.stringify(generateCdktfConfig()),
\* JSON.stringify(generatePackageJson()), and the template literals of
\* generatePythonCode and generateJavaCode, which use no value of the model
CdktfConfigText == [t |-> "text", v |-> "cdktf.json of converted-project"]
PackageJsonText == [t |-> "text", v |-> "package.json of converted-cdktf-project"]
PythonMainText == [t |-> "text", v |-> "class MyStack(TerraformStack)"]
JavaMainText == [t |-> "text", v |-> "public class Main extends TerraformStack"]

\* fs.writeFileSync(path.join(outputDir, name), content): the file is created
\* or replaced
writeFileSync(dir, name, content) ==
    [dir EXCEPT !.files =
        IF \E i \in 1..Len(dir.files) : dir.files[i][1] = name
        THEN [i \in 1..Len(dir.files) |->
                IF dir.files[i][1] = name THEN <<name, content>> ELSE dir.files[i]]
        ELSE Append(dir.files, <<name, content>>)]

\* CdktfGenerator.generateTypeScriptCode: main.ts is generated before any file
\* is written
generateTypeScriptCode(cfg, dir) ==
    LET mainCode == generateTypeScriptMainFile(cfg) IN
    IF mainCode.t = "throw"
    THEN [outcome |-> "threw", dir |-> dir]
    ELSE [outcome |-> "returned",
          dir |-> writeFileSync(
                      writeFileSync(writeFileSync(dir, "main.ts", mainCode),
                                    "cdktf.json", CdktfConfigText),
                      "package.json", PackageJsonText)]

\* Mutant: the Python file lists the resources of the configuration.
generatePythonCodeOfConfig(cfg, dir) ==
    [outcome |-> "returned",
     dir |-> writeFileSync(dir, "main.py",
                 [t |-> "text",
                  v |-> IF cfg.resources = <<>> THEN PythonMainText.v
                        ELSE "class MyStack(TerraformStack) with resources"])]

\* CdktfGenerator.generatePythonCode(_config, outputDir)
generatePythonCode(cfg, dir) ==
    [outcome |-> "returned", dir |-> writeFileSync(dir, "main.py", PythonMainText)]

\* CdktfGenerator.generateJavaCode(_config, outputDir)
generateJavaCode(cfg, dir) ==
    [outcome |-> "returned", dir |-> writeFileSync(dir, "Main.java", JavaMainText)]

\* CdktfGenerator.generateCode(config, outputDir, language)
generateCode(cfg, dir, lang) ==
    LET made == [dir EXCEPT !.exists = TRUE] IN   \* mkdirSync unless existsSync
    CASE lang = "typescript" -> generateTypeScriptCode(cfg, made)
      [] lang = "python" -> generatePythonCode(cfg, made)
      [] lang = "java" -> generateJavaCode(cfg, made)
      [] OTHER -> [outcome |-> "threw", dir |-> made]

\* The languages generateCode is called with: the three of its signature and
\* one outside them
Languages == {"typescript", "python", "java", "go"}

\* The output directory before the call: missing, or present and empty
AbsentDir == [exists |-> FALSE, files |-> <<>>]
OutputDirs == {AbsentDir, [exists |-> TRUE, files |-> <<>>]}

\* One call of generateCode
GenerateCode ==
    /\ genOutcome = "pending"
    /\ LET r == generateCode(config, outDir, language)
       IN  /\ outDir' = r.dir
           /\ genOutcome' = r.outcome
    /\ UNCHANGED <<language, config, mainFile>>
    /\ UNCHANGED <<sanVars, mapVars, resVars, depVars, typVars, callVars>>
    /\ UNCHANGED <<stepVars, cliVars, loadVars>>

(***************************************************************************)
(* The command line (src/cli/index.ts, main)                               *)
(***************************************************************************)

\* Mutant: a file that cannot be read or parsed gives an empty template.
parseFileSwallowing(file) ==
    IF file.exists /\ file.extension \in {"json", "yaml", "yml"} /\ file.wellFormed
    THEN [outcome |-> "returned", template |-> file.template]
    ELSE [outcome |-> "returned", template |-> NoResourcesTemplate]

\* CloudFormationParser.parseFile(filePath): readFileSync raises for a missing
\* file, JSON.parse and yaml.load raise for a text that is not well formed,
\* and any other extension raises "Unsupported file format"
parseFile(file) ==
    IF ~file.exists THEN [outcome |-> "threw", template |-> NoResourcesTemplate]
    ELSE IF file.extension = "json"
    THEN IF file.wellFormed
         THEN [outcome |-> "returned", template |-> file.template]
         ELSE [outcome |-> "threw", template |-> NoResourcesTemplate]
    ELSE IF file.extension \in {"yaml", "yml"}
    THEN IF file.wellFormed
         THEN [outcome |-> "returned", template |-> file.template]
         ELSE [outcome |-> "threw", template |-> NoResourcesTemplate]
    ELSE [outcome |-> "threw", template |-> NoResourcesTemplate]

\* The files --input may name
InputFiles ==
    {[exists |-> FALSE, extension |-> "json", wellFormed |-> FALSE,
      template |-> NoResourcesTemplate]}
    \cup {[exists |-> TRUE, extension |-> e, wellFormed |-> w, template |-> tpl] :
            e \in {"json", "yaml", "yml", "txt"}, w \in BOOLEAN, tpl \in CallTemplates}

\* console.log('Parsing ...'); parseFile(argv.input); and, when it returned,
\* console.log('Mapping ...') and the entry of mapTemplate
CliParse ==
    /\ cli.pc = "parse"
    /\ LET r == parseFile(inputFile)
       IN  IF r.outcome = "threw"
           THEN /\ cli' = [cli EXCEPT !.pc = "catch", !.log = Append(@, "Parsing")]
                /\ UNCHANGED <<template, pc>>
           ELSE /\ cli' = [cli EXCEPT !.pc = "map",
                                      !.log = @ \o <<"Parsing", "Mapping">>]
                /\ template' = r.template
                /\ pc' = "start"
    /\ UNCHANGED <<idx, resources, variables, outputs, warnings, inputFile>>
    /\ UNCHANGED <<sanVars, resVars, extVars, stepVars, codeVars, loadVars>>

\* mapTemplate returned its configuration: console.log('Generating ...');
\* generateCode(terraformConfig, argv.output, argv.language); and, when it
\* returned, console.log('... generated successfully ...') and the end of main
CliGenerate ==
    /\ cli.pc = "map"
    /\ pc = "done"
    /\ config' = [resources |-> resources, variables |-> variables,
                  outputs |-> outputs]
    /\ LET r == generateCode(config', outDir, language)
       IN  /\ outDir' = r.dir
           /\ genOutcome' = r.outcome
           /\ cli' = IF r.outcome = "returned"
                     THEN [cli EXCEPT !.pc = "done", !.exit = "0",
                                      !.log = @ \o <<"Generating", "Success">>]
                     ELSE [cli EXCEPT !.pc = "catch", !.log = Append(@, "Generating")]
    /\ UNCHANGED <<language, mainFile, inputFile>>
    /\ UNCHANGED <<sanVars, mapVars, resVars, depVars, typVars, callVars>>
    /\ UNCHANGED <<stepVars, loadVars>>

\* catch (error) { console.error('Error:', error.message); process.exit(1); }
\* entered from a stage that raised
CliCatch ==
    /\ \/ cli.pc = "catch"
       \/ cli.pc = "map" /\ pc = "threw"
    /\ cli' = [cli EXCEPT !.pc = "exited", !.exit = "1", !.log = Append(@, "Error")]
    /\ UNCHANGED inputFile
    /\ UNCHANGED <<sanVars, mapVars, resVars, extVars, stepVars, codeVars, loadVars>>

(***************************************************************************)
(* Driver of camelToSnakeCase on property keys                             *)
(***************************************************************************)

\* camelToSnakeCase(x)
SnakeOnce ==
    /\ spc = "key"
    /\ sx' = camelToSnakeCase(Str(x))
    /\ spc' = "snake"
    /\ UNCHANGED <<x, ssx>>
    /\ UNCHANGED <<mapVars, resVars, extVars>>
    /\ UNCHANGED moreVars

\* camelToSnakeCase(camelToSnakeCase(x))
SnakeTwice ==
    /\ spc = "snake"
    /\ ssx' = camelToSnakeCase(sx)
    /\ spc' = "snake twice"
    /\ UNCHANGED <<x, sx>>
    /\ UNCHANGED <<mapVars, resVars, extVars>>
    /\ UNCHANGED moreVars

(***************************************************************************)
(* The loader's rewriting of the !GetAtt shorthand                         *)
(* (CloudFormationParser.preprocessCloudFormationTags)                     *)
(***************************************************************************)

\* The positions of the text at which /([^\s]+)\.([^\s]+)/ can place its
\* literal dot: a dot with a character before it and a character after it
dotPositions(text) == {i \in 2..(Len(text) - 1) : text[i] = "."}

\* content.replace(/!GetAtt\s+([^\s]+)\.([^\s]+)/g,
\*                 '{ "Fn::GetAtt": ["$1", "$2"] }') followed by yaml.load,
\* for the run of non-blank characters after the tag: the first group is
\* greedy, so the dot is the last one that leaves the second group a
\* character; a tag the expression does not match stays in the text and
\* yaml.load raises on the unknown tag.
preprocessGetAtt(text) ==
    IF dotPositions(text) = {} THEN Throw
    ELSE LET d == CHOOSE i \in dotPositions(text) :
                     \A j \in dotPositions(text) : j <= i
         IN  GetAtt(Arr(<<Str(SubSeq(text, 1, d - 1)),
                          Str(SubSeq(text, d + 1, Len(text)))>>))

\* The characters of the texts after a !GetAtt tag
LoaderAlphabet == {"R", "A", "."}

RECURSIVE TextsUpTo(_)
TextsUpTo(n) ==
    IF n = 0 THEN {<<>>}
    ELSE LET shorter == TextsUpTo(n - 1)
         IN  shorter \cup {Append(s, c) : s \in shorter, c \in LoaderAlphabet}

\* Long enough for a resource name and an attribute path of two parts
LoaderTexts == TextsUpTo(MaxLen + 2)

\* parseFile of a YAML file holding "!GetAtt " and the text
LoadGetAtt ==
    /\ loaded = Pending
    /\ loaded' = preprocessGetAtt(yamlText)
    /\ UNCHANGED yamlText
    /\ UNCHANGED <<sanVars, mapVars, resVars, extVars, stepVars, codeVars, cliVars>>

(***************************************************************************)
(* The drivers added for the generator, the command line and the loader,   *)
(* when they are not used                                                  *)
(***************************************************************************)

StepIdle ==
    /\ tsArg = <<>>
    /\ tsDepth = 0
    /\ tsWrap = <<>>

CodeIdle ==
    /\ language = "typescript"
    /\ outDir = [exists |-> FALSE, files |-> <<>>]
    /\ genOutcome = "pending"

CliIdle ==
    /\ inputFile = [exists |-> FALSE, extension |-> "json", wellFormed |-> FALSE,
                    template |-> NoResourcesTemplate]
    /\ cli = [pc |-> "idle", log |-> <<>>, exit |-> "none"]

LoadIdle ==
    /\ yamlText = <<>>
    /\ loaded = Pending

MoreIdle ==
    /\ StepIdle
    /\ CodeIdle
    /\ CliIdle
    /\ LoadIdle

(***************************************************************************)
(* Specifications                                                          *)
(***************************************************************************)

\* One call of mapTemplate on a template drawn from Templates
Init ==
    /\ template \in Templates
    /\ pc = "start"
    /\ idx = 1
    /\ resources = <<>>
    /\ variables = <<>>
    /\ outputs = <<>>
    /\ warnings = <<>>
    /\ SanitizeIdle
    /\ ResolverIdle
    /\ DriversIdle
    /\ CallsIdle
    /\ MoreIdle

Next == MapParameters \/ MapResource \/ MapOutputs

Spec == Init /\ [][Next]_vars

\* sanitizeResourceName applied once and twice to a string of SanitizeInputs
InitSanitize ==
    /\ x \in SanitizeInputs
    /\ sx = Pending
    /\ ssx = Pending
    /\ spc = "in"
    /\ MapperIdle
    /\ ResolverIdle
    /\ DriversIdle
    /\ CallsIdle
    /\ MoreIdle

NextSanitize == SanitizeOnce \/ SanitizeTwice

SpecSanitize == InitSanitize /\ [][NextSanitize]_vars

\* transformValue and transformExpression applied to a value tree
InitResolve ==
    /\ node \in NodesUpTo(MaxDepth)
    /\ asValue = Pending
    /\ asExpr = Pending
    /\ SanitizeIdle
    /\ MapperIdle
    /\ DriversIdle
    /\ CallsIdle
    /\ MoreIdle

NextResolve == ResolveProperty \/ ResolveOutput

SpecResolve == InitResolve /\ [][NextResolve]_vars

\* A node resolved in both positions and printed by the generator
NextEmit == ResolveProperty \/ ResolveOutput \/ EmitResolved

SpecEmit == InitResolve /\ [][NextEmit]_vars

\* generateCode called once with a configuration, a directory and a language
InitCode ==
    /\ config \in Configs
    /\ mainFile = Pending
    /\ language \in Languages
    /\ outDir \in OutputDirs
    /\ genOutcome = "pending"
    /\ SanitizeIdle
    /\ MapperIdle
    /\ ResolverIdle
    /\ DependsIdle
    /\ TypeIdle
    /\ CallsIdle
    /\ StepIdle
    /\ CliIdle
    /\ LoadIdle

NextCode == GenerateCode

SpecCode == InitCode /\ [][NextCode]_vars

\* One run of the command line; yargs admits the three languages only. The
\* parse and the catch block, once reached, are executed.
InitCli ==
    /\ inputFile \in InputFiles
    /\ cli = [pc |-> "parse", log |-> <<>>, exit |-> "none"]
    /\ language \in {"typescript", "python", "java"}
    /\ outDir \in OutputDirs
    /\ genOutcome = "pending"
    /\ MapperIdle
    /\ SanitizeIdle
    /\ ResolverIdle
    /\ DriversIdle
    /\ CallsIdle
    /\ StepIdle
    /\ LoadIdle

NextCli ==
    CliParse \/ MapParameters \/ MapResource \/ MapOutputs \/ CliGenerate \/ CliCatch

SpecCli ==
    InitCli /\ [][NextCli]_vars /\ WF_vars(CliParse) /\ WF_vars(CliCatch)

\* camelToSnakeCase applied once and twice to a key of SanitizeInputs or to
\* the key of the sample
InitSnake ==
    /\ x \in SanitizeInputs \cup {S_BucketName}
    /\ sx = Pending
    /\ ssx = Pending
    /\ spc = "key"
    /\ MapperIdle
    /\ ResolverIdle
    /\ DriversIdle
    /\ CallsIdle
    /\ MoreIdle

NextSnake == SnakeOnce \/ SnakeTwice

SpecSnake == InitSnake /\ [][NextSnake]_vars

\* The loader applied to a !GetAtt shorthand
InitLoad ==
    /\ yamlText \in LoaderTexts
    /\ loaded = Pending
    /\ SanitizeIdle
    /\ MapperIdle
    /\ ResolverIdle
    /\ DriversIdle
    /\ CallsIdle
    /\ StepIdle
    /\ CodeIdle
    /\ CliIdle

NextLoad == LoadGetAtt

SpecLoad == InitLoad /\ [][NextLoad]_vars

\* mapResource applied to a resource declaring a DependsOn of DependsOnInputs
InitDepends ==
    /\ dep \in DependsOnInputs
    /\ deps = Pending
    /\ depsSeq = Pending
    /\ SanitizeIdle
    /\ MapperIdle
    /\ ResolverIdle
    /\ TypeIdle
    /\ GeneratorIdle
    /\ CallsIdle
    /\ MoreIdle

NextDepends == NormalizeDeclared \/ NormalizeAsSequence

SpecDepends == InitDepends /\ [][NextDepends]_vars

\* terraformTypeToTypeScript applied to a type tag
InitType ==
    /\ tfType \in TagsUpTo(MaxNest)
    /\ tsType = Pending
    /\ SanitizeIdle
    /\ MapperIdle
    /\ ResolverIdle
    /\ DependsIdle
    /\ GeneratorIdle
    /\ CallsIdle
    /\ MoreIdle

NextType == MapScalarType

SpecType == InitType /\ [][NextType]_vars

\* terraformTypeToTypeScript applied to a type tag, call by call; a call that
\* can take a step takes it.
InitTypeSteps ==
    /\ tfType \in TagsUpTo(MaxNest)
    /\ tsType = Pending
    /\ tsArg = tfType
    /\ tsDepth = 0
    /\ tsWrap = <<>>
    /\ SanitizeIdle
    /\ MapperIdle
    /\ ResolverIdle
    /\ DependsIdle
    /\ GeneratorIdle
    /\ CallsIdle
    /\ CodeIdle
    /\ CliIdle
    /\ LoadIdle

NextTypeSteps == CallInnerType \/ ReturnType

SpecTypeSteps ==
    InitTypeSteps /\ [][NextTypeSteps]_vars /\ WF_vars(NextTypeSteps)

\* generateTypeScriptMainFile applied to a configuration
InitGenerate ==
    /\ config \in Configs
    /\ mainFile = Pending
    /\ SanitizeIdle
    /\ MapperIdle
    /\ ResolverIdle
    /\ DependsIdle
    /\ TypeIdle
    /\ CallsIdle
    /\ MoreIdle

NextGenerate == GenerateMainFile

SpecGenerate == InitGenerate /\ [][NextGenerate]_vars

\* Up to MaxCalls calls of mapTemplate, one after the other, on templates of
\* CallTemplates
InitCalls ==
    /\ template \in CallTemplates
    /\ pc = "start"
    /\ idx = 1
    /\ resources = <<>>
    /\ variables = <<>>
    /\ outputs = <<>>
    /\ warnings = <<>>
    /\ SanitizeIdle
    /\ ResolverIdle
    /\ DriversIdle
    /\ CallsIdle
    /\ MoreIdle

NextCalls ==
    MapParameters \/ MapResource \/ MapOutputs \/ ReturnToCaller \/ CallMapTemplate

SpecCalls == InitCalls /\ [][NextCalls]_vars

(***************************************************************************)
(* Claims                                                                  *)
(***************************************************************************)

\* C1: for every input string x, sanitize(x) has the length of x and is x
\* with every character outside [A-Za-z0-9_] replaced by "_" and every other
\* character lower-cased, position by position; sanitize("My-Bucket.1") is
\* "my_bucket_1".
C1_SanitizeCharByChar ==
    spc \in {"once", "twice"} =>
        /\ IsString(sx)
        /\ Len(sx.v) = Len(x)
        /\ \A i \in 1..Len(x) :
              sx.v[i] = IF IsWordChar(x[i]) THEN toLowerCaseChar(x[i]) ELSE "_"
        /\ \A i \in 1..Len(x) : ~IsUpper(sx.v[i])
        /\ (x = S_MyBucket1 => sx.v = S_my_bucket_1)

\* C1 witness: the sample name has been sanitized.
C1_Witness == spc = "once" /\ x = S_MyBucket1 /\ sx = Str(S_my_bucket_1)

\* C2: sanitize is total and idempotent: sanitize(x) is a string for every
\* input string, sanitize("") = "", and sanitize(sanitize(x)) = sanitize(x).
C2_SanitizeIdempotentTotal ==
    /\ spc \in {"once", "twice"} => IsString(sx) /\ (x = <<>> => sx.v = <<>>)
    /\ spc = "twice" => IsString(ssx) /\ ssx = sx

\* C2 witness: a name that sanitize changes in two places has been sanitized
\* twice.
C2_Witness ==
    /\ spc = "twice"
    /\ x = <<"A", "-", ".">>
    /\ sx = Str(<<"a", "_", "_">>)
    /\ ssx = sx

\* The entries of template.Resources
SourceResources == template.Resources.v

\* C3: a resource whose kind is not one of the four keys of the kind-mapping
\* table is never appended to resources, whatever the kind string is.
C3_UnmappedKindEmitsNothing ==
    [][ ( /\ pc = "resources"
          /\ template.Resources.t = "object"
          /\ idx <= Len(SourceResources)
          /\ SourceResources[idx][2].Type \notin MappedKinds )
        => resources' = resources ]_vars

\* The number of the first k source resources whose kind is not a key of the
\* kind-mapping table
UnmappedAmong(k) ==
    Cardinality({i \in 1..k : SourceResources[i][2].Type \notin MappedKinds})

\* C4: when mapTemplate returns, the number of warnings equals the number of
\* resources of unmapped kind; a template whose only resource is of unmapped
\* kind gives no resources and exactly one warning; and the entry at which a
\* call fails is never one of unmapped kind.
C4_OneWarningPerUnmappedResource ==
    /\ pc = "done" =>
          /\ Len(warnings) = UnmappedAmong(Len(SourceResources))
          /\ ( Len(SourceResources) = 1 /\ UnmappedAmong(1) = 1
               => Len(resources) = 0 /\ Len(warnings) = 1 )
    /\ ( pc = "threw" /\ template.Resources.t = "object" /\ idx <= Len(SourceResources)
         => SourceResources[idx][2].Type \in MappedKinds )

\* The target kind the README's table of supported resources gives a kind
ExpectedTargetKind(kind) ==
    CASE kind = "AWS::S3::Bucket"       -> S_aws_s3_bucket
      [] kind = "AWS::IAM::Role"        -> S_aws_iam_role
      [] kind = "AWS::Lambda::Function" -> S_aws_lambda_function
      [] kind = "AWS::DynamoDB::Table"  -> S_aws_dynamodb_table

\* C5: when mapTemplate returns, resources is the order-preserving image of
\* the source resources of the four supported kinds: same length, and the
\* j-th element carries the table's target kind and the sanitized name of the
\* j-th supported source resource.
C5_MappedResourcesInSourceOrder ==
    pc = "done" =>
        LET IsSupported(e) == e[2].Type \in MappedKinds
            supported == SelectSeq(SourceResources, IsSupported)
        IN  /\ Len(resources) = Len(supported)
            /\ \A j \in 1..Len(supported) :
                  /\ resources[j].type = Str(ExpectedTargetKind(supported[j][2].Type))
                  /\ resources[j].name = sanitizeResourceName(Str(supported[j][1]))

\* C6: when mapTemplate returns, no two elements of resources carry the same
\* identifier (the source names of a template are pairwise distinct).
C6_IdentifiersUnique ==
    pc = "done" =>
        \A i, j \in 1..Len(resources) :
            i # j => resources[i].name # resources[j].name

\* The pseudo-parameters the mapper names
PseudoParameters == {S_AWSRegion, S_AWSAccountId}

\* The quoted literal carrying a name
Quoted(name) == Str(<<Quote>> \o name \o <<Quote>>)

\* C7: a Reference to a pseudo-parameter resolves to the quoted literal
\* carrying its name, in property position and in output position.
C7_PseudoParameterIsQuotedLiteral ==
    \A n \in PseudoParameters :
        node = Ref(Str(n)) =>
            /\ asValue.t # "pending" => asValue = Quoted(n)
            /\ asExpr.t # "pending" => asExpr = Quoted(n)

\* The names the template declares as parameters and as resources
ParameterNames ==
    IF template.Parameters.t = "object"
    THEN {template.Parameters.v[i][1] : i \in 1..Len(template.Parameters.v)}
    ELSE {}
DeclaredResourceNames == {SourceResources[i][1] : i \in 1..Len(SourceResources)}

\* A Reference node to a name that is no pseudo-parameter
IsPlainReference(val) ==
    /\ val.t = "object"
    /\ Len(val.v) = 1
    /\ val.v[1][1] = S_Ref
    /\ IsString(val.v[1][2])
    /\ ~startsWith(val.v[1][2].v, S_AWS)

\* The two forms of fragment: props.<name> addresses a parameter (a field of
\* the stack's props), the bare sanitized identifier addresses a resource.
IsParameterFragment(val) == IsString(val) /\ startsWith(val.v, S_props)
IsResourceFragment(val, name) == val = sanitizeResourceName(Str(name))

\* What C8 asks of the result of resolving the source value src
ResolvedByNamespace(src, result) ==
    IsPlainReference(src) =>
        LET name == src.v[1][2].v IN
        /\ (name \in ParameterNames \ DeclaredResourceNames
              => IsParameterFragment(result))
        /\ (name \in DeclaredResourceNames \ ParameterNames
              => IsResourceFragment(result, name) /\ ~IsParameterFragment(result))

\* C8: when mapTemplate returns, every Reference in a property or in an
\* output value is resolved by the namespace that declares its name: to a
\* parameter-addressing fragment for a parameter name, to a
\* resource-addressing fragment for a resource name, in either position.
C8_ReferenceResolvedByNamespace ==
    pc = "done" =>
        LET IsEmitted(e) == Truthy(resourceTypeMapping(e[2].Type))
            emitted == SelectSeq(SourceResources, IsEmitted)
        IN  /\ \A j \in 1..Len(emitted) :
                  \A i \in 1..Len(emitted[j][2].Properties.v) :
                      LET entry == emitted[j][2].Properties.v[i]
                      IN  ResolvedByNamespace(
                              entry[2],
                              GetKey(resources[j].properties,
                                     camelToSnakeCase(Str(entry[1])).v))
            /\ \A i \in 1..Len(outputs) :
                  ResolvedByNamespace(template.Outputs.v[i][2].Value,
                                      outputs[i][2].value)

\* An Fn::GetAtt argument that names a resource and an attribute path: the
\* delimited string "<resourceName>.<attributePath>" or the two-element form
HasTwoParts(arg) ==
    \/ arg.t = "string" /\ "." \in Range(arg.v)
    \/ arg.t = "array" /\ Len(arg.v) = 2 /\ IsString(arg.v[1]) /\ IsString(arg.v[2])

\* The resource name and the attribute path of such an argument, the string
\* form split at its first delimiter
AttributeParts(arg) ==
    IF arg.t = "string"
    THEN LET d == CHOOSE i \in 1..Len(arg.v) :
                     arg.v[i] = "." /\ \A j \in 1..(i-1) : arg.v[j] # "."
         IN  <<SubSeq(arg.v, 1, d - 1), SubSeq(arg.v, d + 1, Len(arg.v))>>
    ELSE <<arg.v[1].v, arg.v[2].v>>

\* sanitize(R) + "." + the separated-word rewriting of A
ExpectedAttributeFragment(arg) ==
    Str(sanitizeResourceName(Str(AttributeParts(arg)[1])).v
        \o <<".">>
        \o camelToSnakeCase(Str(AttributeParts(arg)[2])).v)

\* C9: an AttributeOf node naming resource R and attribute path A resolves,
\* in property position and in output position alike, to
\* sanitize(R) + "." + rewritten(A), R and A being split at the first
\* delimiter.
C9_AttributeOfFragment ==
    ( /\ node.t = "object"
      /\ Len(node.v) = 1
      /\ node.v[1][1] = S_FnGetAtt
      /\ HasTwoParts(node.v[1][2]) )
    => /\ asValue.t # "pending" => asValue = ExpectedAttributeFragment(node.v[1][2])
       /\ asExpr.t # "pending" => asExpr = ExpectedAttributeFragment(node.v[1][2])

S_mys3bucket_arn == <<"m","y","s","3","b","u","c","k","e","t",".","a","r","n">>

\* C10: mapTemplate on the sample template returns exactly one variable,
\* BucketName, with a default; exactly one resource, whose BucketName property
\* is the fragment addressing the parameter; and exactly one output, whose
\* expression is "mys3bucket.arn".
C10_SampleTemplateEndToEnd ==
    template = SampleTemplate /\ pc = "done" =>
        /\ Len(variables) = 1
        /\ variables[1][1] = S_BucketName
        /\ variables[1][2].default = Str(S_my_sample_bucket)
        /\ Len(resources) = 1
        /\ Len(resources[1].properties.v) = 1
        /\ resources[1].properties.v[1][2] = Str(S_props \o S_BucketName)
        /\ Len(outputs) = 1
        /\ outputs[1][2].value = Str(S_mys3bucket_arn)

\* The keys that make a mapping an intrinsic node
IntrinsicKeys == {S_Ref, S_FnGetAtt, S_FnSub, S_FnJoin}

\* A value tree without an intrinsic node at any depth
RECURSIVE IsLiteralTree(_)
IsLiteralTree(val) ==
    CASE val.t = "array"  -> \A i \in 1..Len(val.v) : IsLiteralTree(val.v[i])
      [] val.t = "object" ->
            /\ \A i \in 1..Len(val.v) : val.v[i][1] \notin IntrinsicKeys
            /\ \A i \in 1..Len(val.v) : IsLiteralTree(val.v[i][2])
      [] OTHER -> TRUE

\* result has the shape of src: the same scalar, a sequence of the same
\* length whose elements have the shapes of src's in order, or a mapping with
\* as many entries whose keys are the rewritten keys of src's in order
RECURSIVE Isomorphic(_, _)
Isomorphic(src, result) ==
    CASE src.t = "array" ->
            /\ result.t = "array"
            /\ Len(result.v) = Len(src.v)
            /\ \A i \in 1..Len(src.v) : Isomorphic(src.v[i], result.v[i])
      [] src.t = "object" ->
            /\ result.t = "object"
            /\ Len(result.v) = Len(src.v)
            /\ \A i \in 1..Len(src.v) :
                  /\ result.v[i][1] = camelToSnakeCase(Str(src.v[i][1])).v
                  /\ Isomorphic(src.v[i][2], result.v[i][2])
      [] OTHER -> result = src

\* C11: a value tree without intrinsic nodes resolves, in property position,
\* to a tree of the same shape: scalars unchanged, sequences of the same
\* length and order, mappings with as many entries and every key rewritten,
\* also when two keys of one mapping are rewritten to the same key.
C11_LiteralTreeIsomorphic ==
    (asValue # Pending /\ IsLiteralTree(node)) => Isomorphic(node, asValue)

\* C12: a dependsOn written as the non-empty identifier s and one written as
\* the one-element sequence [s] give the same dependencies, a sequence of
\* one element.
C12_BareAndSingletonDependsOnAgree ==
    (deps # Pending /\ depsSeq # Pending /\ IsString(dep) /\ dep.v # <<>>) =>
        /\ deps = depsSeq
        /\ deps.t = "array"
        /\ Len(deps.v) = 1

\* C12 witness: both forms of a dependsOn naming "A-a" have been normalised.
C12_Witness ==
    /\ dep = Str(<<"A", "-", "a">>)
    /\ deps = Arr(<<dep>>)
    /\ depsSeq = deps

\* The identifiers a declared DependsOn names, in source order
DeclaredDependencies(d) == IF d.t = "array" THEN d.v ELSE <<d>>

\* C13: a resource that declares dependsOn, as one identifier or as a
\* sequence, gets as dependencies the sequence of the sanitized identifiers
\* in source order; dependencies is absent only when no dependsOn is
\* declared.
C13_DependenciesSanitizedInOrder ==
    deps # Pending =>
        /\ dep # Undefined =>
              /\ deps.t = "array"
              /\ Len(deps.v) = Len(DeclaredDependencies(dep))
              /\ \A i \in 1..Len(deps.v) :
                    deps.v[i] = sanitizeResourceName(DeclaredDependencies(dep)[i])
        /\ deps = Undefined => dep = Undefined

S_string_array == <<"s","t","r","i","n","g","[","]">>
S_Record_number == <<"R","e","c","o","r","d","<","s","t","r","i","n","g",","," ","n","u","m","b","e","r",">">>
S_Record_number_array == <<"R","e","c","o","r","d","<","s","t","r","i","n","g",","," ","n","u","m","b","e","r",">","[","]">>

\* The words terraformTypeToTypeScript recognises at the start of a tag
RecognisedPrefixes == {S_string, S_number, S_bool, S_list, S_map}

\* C14: terraformTypeToTypeScript returns a string for every tag;
\* "list(string)" gives "string[]" and "map(number)" gives
\* "Record<string, number>"; list(g) gives the image of g followed by "[]" and
\* map(g) gives "Record<string, " + the image of g + ">"; a tag that starts
\* with none of the recognised words gives "any".
C14_MapScalarTypeByPrefix ==
    tsType # Pending =>
        /\ IsString(tsType)
        /\ (tfType = ListOf(S_string) => tsType.v = S_string_array)
        /\ (tfType = S_map_number => tsType.v = S_Record_number)
        /\ \A g \in TagsUpTo(MaxNest) :
              /\ tfType = ListOf(g) =>
                    tsType.v = terraformTypeToTypeScript(Str(g)).v \o S_brackets
              /\ tfType = MapOf(g) =>
                    tsType.v = S_RecordOpen \o terraformTypeToTypeScript(Str(g)).v
                               \o S_RecordClose
        /\ ((\A w \in RecognisedPrefixes : ~startsWith(tfType, w)) => tsType.v = S_any)

\* C14 witness: the tag "list(map(number))" has been mapped.
C14_Witness ==
    /\ tfType = ListOf(S_map_number)
    /\ tsType = Str(S_Record_number_array)

\* The variable type the TypeMapper gives a parameter type
ExpectedVariableType(cfnType) ==
    CASE cfnType = "String" -> S_string
      [] cfnType = "Number" -> S_number
      [] cfnType = "CommaDelimitedList" -> S_list_string
      [] OTHER -> S_any

\* C15: once the parameters are mapped, variables holds exactly one entry
\* per declared parameter, in order, keyed by the parameter's name, with the
\* mapped type and the source's default and description; without a
\* Parameters section variables is empty.
C15_OneVariablePerParameter ==
    pc \in {"resources", "done"} =>
        IF template.Parameters.t = "object"
        THEN LET params == template.Parameters.v IN
             /\ Len(variables) = Len(params)
             /\ \A i \in 1..Len(params) :
                   /\ variables[i][1] = params[i][1]
                   /\ variables[i][2].type = ExpectedVariableType(params[i][2].Type)
                   /\ variables[i][2].default = params[i][2].Default
                   /\ variables[i][2].description = params[i][2].Description
        ELSE variables = <<>>

\* The text of a declared default value in the generated constructor
ExpectedDefaultText(d) ==
    CASE d = Null        -> <<"n","u","l","l">>
      [] d = Bool(FALSE) -> <<"f","a","l","s","e">>
      [] d = Num(0)      -> <<"0">>
      [] d = Str(<<>>)   -> <<Quote, Quote>>
      [] d = Str(S_my_sample_bucket) -> <<Quote>> \o S_my_sample_bucket \o <<Quote>>

\* s ends with the text tail
EndsWith(s, tail) ==
    Len(s) >= Len(tail) /\ SubSeq(s, Len(s) - Len(tail) + 1, Len(s)) = tail

\* C16: in the generated file a variable's field of the props interface
\* carries the optional mark "?" exactly when the variable has a declared
\* default, and its initialiser in the constructor falls back to that default
\* ("?? <default>") exactly in that case; null, false, 0 and the empty string
\* are declared defaults.
C16_RequiredIffDefaultAbsent ==
    mainFile.t = "file" =>
        \A i \in 1..Len(config.variables) :
            LET name     == config.variables[i][1]
                default  == config.variables[i][2].default
                declared == default # Undefined
                field    == mainFile.v.interface[i]
                init     == mainFile.v.initializers[i]
            IN  /\ (field[Len(S_fieldIndent) + Len(name) + 1] = "?") <=> declared
                /\ includes(init, S_nullish) <=> declared
                /\ declared =>
                      EndsWith(init, S_nullish \o ExpectedDefaultText(default) \o <<";">>)

\* C16 witness: a file has been generated for a variable with the declared
\* default 0 and a variable without default.
C16_Witness ==
    /\ mainFile.t = "file"
    /\ Len(config.variables) = 2
    /\ config.variables[1][2].default = Num(0)
    /\ config.variables[1][2].type = S_number
    /\ config.variables[2][2].default = Undefined
    /\ mainFile.v.interface = << <<" "," ","A","b","?",":"," ","n","u","m","b","e","r",";">>,
                                 <<" "," ","a","b",":"," ","s","t","r","i","n","g",";">> >>
    /\ mainFile.v.initializers = << <<" "," "," "," ","t","h","i","s",".","A","b"," ","="," ","p","r","o","p","s","?",".","A","b"," ","?","?"," ","0",";">>,
                                    <<" "," "," "," ","t","h","i","s",".","a","b"," ","="," ","p","r","o","p","s",".","a","b",";">> >>

\* C17: mapTemplate is a pure function of its argument: any two completed
\* calls on equal templates, whatever was called between them, ended the same
\* way with equal models; the static kind table always holds the entries it
\* was created with; and no step of a call changes the template it was
\* passed.
C17_MapTemplatePure ==
    /\ [](\A i \in 1..Len(history) : \A j \in 1..Len(history) :
            history[i].template = history[j].template =>
                /\ history[i].outcome = history[j].outcome
                /\ history[i].model = history[j].model)
    /\ [](kindTable = KindTable)
    /\ [][ (pc \in {"start", "resources", "done", "threw"} => template' = template) ]_vars

\* C17 witness: the sample template has been mapped, then another template,
\* then the sample template again, with the same non-empty model.
C17_Witness ==
    /\ Len(history) = 3
    /\ history[1].template = SampleTemplate
    /\ history[2].template # SampleTemplate
    /\ history[3].template = SampleTemplate
    /\ history[1].outcome = "done"
    /\ Len(history[1].model[1]) = 1
    /\ history[3].model = history[1].model

\* An Fn::Sub or Fn::Join node
IsInterpolation(val) ==
    /\ val.t = "object"
    /\ Len(val.v) = 1
    /\ val.v[1][1] \in {S_FnSub, S_FnJoin}

\* C18: an Fn::Sub or Fn::Join node is not resolved: in property position
\* the result is a one-entry mapping holding the node's arguments unchanged
\* (Ref and Fn::GetAtt nodes among them left as they are), in output position
\* the result is the node's textual form.
C18_InterpolationLeftUnresolved ==
    IsInterpolation(node) =>
        /\ asValue # Pending =>
              /\ asValue.t = "object"
              /\ Len(asValue.v) = 1
              /\ asValue.v[1][2] = node.v[1][2]
        /\ asExpr # Pending => asExpr = Str(S_objectObject)

\* A Ref node whose argument is not a string
IsMalformedReference(val) ==
    /\ val.t = "object"
    /\ HasKey(val, S_Ref)
    /\ ~IsString(GetKey(val, S_Ref))

\* C19: a value that is neither a well-formed Ref nor a well-formed
\* Fn::GetAtt node (a scalar, null, a sequence or a mapping without
\* intrinsic nodes, or a Ref node whose argument is not a string) is resolved
\* to a value in property position and in output position: neither call
\* raises.
C19_ResolutionNeverRaises ==
    (IsLiteralTree(node) \/ IsMalformedReference(node)) =>
        /\ asValue.t # "throw"
        /\ asExpr.t # "throw"

\* An Fn::GetAtt argument without the two expected parts: an empty or
\* one-element sequence, or a single string
IsMalformedAttributeArgument(arg) ==
    \/ arg.t = "array" /\ Len(arg.v) < 2
    \/ arg.t = "string"

\* C20: an Fn::GetAtt node whose argument is an empty sequence, a one-element
\* sequence or a single string makes resolution raise, in property position
\* and in output position: no fragment is returned for it.
C20_MalformedAttributeRaises ==
    ( /\ node.t = "object"
      /\ Len(node.v) = 1
      /\ node.v[1][1] = S_FnGetAtt
      /\ IsMalformedAttributeArgument(node.v[1][2]) )
    => /\ asValue \in {Pending, Throw}
       /\ asExpr \in {Pending, Throw}

\* C21: a mapping with two or more keys is literal structure even when one
\* of its keys is Ref or Fn::GetAtt: in property position the result is a
\* mapping holding every entry, its key rewritten and its value resolved; in
\* output position it is not resolved as an expression but given its textual
\* form.
C21_MultiKeyMappingIsLiteral ==
    (node.t = "object" /\ Len(node.v) >= 2) =>
        /\ asValue # Pending =>
              /\ asValue.t = "object"
              /\ Len(asValue.v) = Len(node.v)
              /\ \A i \in 1..Len(node.v) :
                    /\ asValue.v[i][1] = camelToSnakeCase(Str(node.v[i][1])).v
                    /\ asValue.v[i][2] = transformValue(node.v[i][2])
        /\ asExpr # Pending => asExpr = Str(S_objectObject)

\* C22: a Ref to a name that is no pseudo-parameter resolves, in property
\* position and in output position, to a fragment whose identifier is
\* sanitize(name): the fragment ends with the sanitized name.
C22_ReferenceIdentifierSanitized ==
    IsPlainReference(node) =>
        LET id == sanitizeResourceName(node.v[1][2]).v IN
        /\ asValue # Pending => IsString(asValue) /\ EndsWith(asValue.v, id)
        /\ asExpr # Pending => IsString(asExpr) /\ EndsWith(asExpr.v, id)

\* C23: terraformTypeToTypeScript terminates on every tag: every recursive
\* call is made on a strictly shorter string or on "any", the number of
\* recursive calls never exceeds the length of the tag, and the call
\* eventually returns, with the value of terraformTypeToTypeScript.
C23_MapScalarTypeTerminates ==
    /\ [][ (tsDepth' = tsDepth + 1 =>
               (Len(tsArg') < Len(tsArg) \/ tsArg' = S_any)) ]_vars
    /\ [](tsDepth <= Len(tfType))
    /\ [](tsType # Pending => tsType = terraformTypeToTypeScript(Str(tfType)))
    /\ <>(tsType # Pending)

\* C23 witness: "list(map(number))" has returned after two recursive calls.
C23_Witness ==
    /\ tfType = ListOf(S_map_number)
    /\ tsDepth = 2
    /\ tsArg = S_number
    /\ tsType = Str(S_Record_number_array)

\* The text after "key: " of the only property of the only emitted resource,
\* and after "value: " of the only emitted output, is text
PropertyPrintedAs(text) ==
    includes(mainFile.v.resources[1], S_name \o S_colonSpace \o text \o S_comma)
OutputPrintedAs(text) ==
    includes(mainFile.v.outputs[1], S_valueLine \o text \o S_descriptionLine)

\* C24: in the generated file every literal string is printed quoted,
\* whatever characters it contains, and every expression fragment (the result
\* of a Reference to a declared name or of a well-formed AttributeOf) is
\* printed raw, whatever its form, for property values and output values.
C24_FragmentsRawLiteralsQuoted ==
    (mainFile # Pending /\ mainFile.t = "file") =>
        /\ node.t = "string" =>
              /\ PropertyPrintedAs(Quoted(node.v).v)
              /\ OutputPrintedAs(Quoted(node.v).v)
        /\ (IsPlainReference(node) /\ IsString(asValue) /\ IsString(asExpr)) =>
              /\ PropertyPrintedAs(asValue.v)
              /\ OutputPrintedAs(asExpr.v)

\* The parse stage fails on this file: it is missing, its extension is none
\* of .json, .yaml, .yml, or its text is not well formed
ParseFails(file) ==
    \/ ~file.exists
    \/ file.extension \notin {"json", "yaml", "yml"}
    \/ ~file.wellFormed

\* C25: in every run of the command line mapping starts only after the parse
\* returned (on the template it returned), every mapping step lies before
\* generation, generation starts only after mapping returned; if the parse
\* fails no mapping or generation step is taken, no file is written, and the
\* run ends with the error reported and exit status 1; the success message
\* is printed only after generation returned.
C25_StagesInOrder ==
    /\ [][ ((pc = "idle" /\ pc' # "idle") =>
               /\ cli.pc = "parse"
               /\ ~ParseFails(inputFile)
               /\ template' = inputFile.template) ]_vars
    /\ [][ ((pc # "idle" /\ pc' # pc) =>
               cli.pc = "map" /\ cli'.pc = "map" /\ genOutcome = "pending") ]_vars
    /\ [][ ((genOutcome' # genOutcome \/ outDir' # outDir) =>
               cli.pc = "map" /\ pc = "done") ]_vars
    /\ [](ParseFails(inputFile) =>
               /\ pc = "idle"
               /\ genOutcome = "pending"
               /\ outDir \in OutputDirs
               /\ "Mapping" \notin Range(cli.log)
               /\ "Generating" \notin Range(cli.log))
    /\ [](ParseFails(inputFile) =>
               <>(cli.exit = "1" /\ cli.log = <<"Parsing", "Error">>))
    /\ []("Success" \in Range(cli.log) =>
               genOutcome = "returned" /\ cli.log[Len(cli.log)] = "Success")

\* C25 witness: a YAML file that is not well formed ended the run with
\* exit status 1.
C25_Witness ==
    /\ inputFile.exists
    /\ inputFile.extension = "yaml"
    /\ ~inputFile.wellFormed
    /\ cli.pc = "exited"
    /\ cli.exit = "1"
    /\ pc = "idle"

\* The content of the file of this name in a directory
HasFile(dir, name) == \E i \in 1..Len(dir.files) : dir.files[i][1] = name
FileContent(dir, name) ==
    dir.files[CHOOSE i \in 1..Len(dir.files) : dir.files[i][1] = name][2]

C26_ShorthandSplitAtFirstDelimiter ==
    (loaded # Pending /\ dotPositions(yamlText) # {}
       /\ HasTwoParts(Str(yamlText)) /\ Head(yamlText) # ".") =>
        loaded = GetAtt(Arr(<<Str(AttributeParts(Str(yamlText))[1]),
                              Str(AttributeParts(Str(yamlText))[2])>>))

S__bucket_name == <<"_","b","u","c","k","e","t","_","n","a","m","e">>

\* The number of upper-case letters among the first n characters of s
UppersIn(s, n) == Cardinality({i \in 1..n : IsUpper(s[i])})

\* C27: camelToSnakeCase puts one '_' before every upper-case letter, a
\* leading one included, and lower-cases: the result has no upper-case
\* letter, is longer than the key by the number of its upper-case letters,
\* carries every character of the key, lower-cased, at its shifted position
\* with '_' before it if it was upper-case; "BucketName" gives
\* "_bucket_name"; and the result is a fixed point of the rule.
C27_SnakeCaseRule ==
    /\ spc \in {"snake", "snake twice"} =>
          /\ IsString(sx)
          /\ \A i \in 1..Len(sx.v) : ~IsUpper(sx.v[i])
          /\ Len(sx.v) = Len(x) + UppersIn(x, Len(x))
          /\ \A i \in 1..Len(x) :
                /\ sx.v[i + UppersIn(x, i)] = toLowerCaseChar(x[i])
                /\ IsUpper(x[i]) => sx.v[i + UppersIn(x, i) - 1] = "_"
          /\ x = S_BucketName => sx = Str(S__bucket_name)
    /\ spc = "snake twice" => ssx = sx

\* C27 witness: "BucketName" was rewritten to "_bucket_name", twice.
C27_Witness ==
    /\ x = S_BucketName
    /\ spc = "snake twice"
    /\ sx = Str(S__bucket_name)
    /\ ssx = Str(S__bucket_name)

\* C29: mapResource gives no dependencies for a dependsOn that is the empty
\* string, the empty sequence (not absent) for a dependsOn that is the empty
\* sequence, and the sequence itself, of the same length, for a non-empty
\* sequence.
C29_EmptyDependsOnForms ==
    deps # Pending =>
        /\ dep = Str(<<>>) => deps = Undefined
        /\ dep = Arr(<<>>) => (deps # Undefined /\ deps = Arr(<<>>))
        /\ (dep.t = "array" /\ dep.v # <<>>) =>
              /\ deps.t = "array"
              /\ Len(deps.v) = Len(dep.v)
              /\ deps = dep

\* C29 witness: a resource declaring the empty sequence was mapped.
C29_Witness ==
    /\ dep = Arr(<<>>)
    /\ deps = Arr(<<>>)

\* Content that makes the mapping of a resource fail: no Properties section,
\* or a property that is an Fn::GetAtt node with a one-element sequence
HasFailingContent(decl) ==
    \/ decl.Properties = Undefined
    \/ /\ decl.Properties.t = "object"
       /\ \E i \in 1..Len(decl.Properties.v) :
             LET val == decl.Properties.v[i][2] IN
             /\ val.t = "object"
             /\ Len(val.v) = 1
             /\ val.v[1][1] = S_FnGetAtt
             /\ val.v[1][2].t = "array"
             /\ Len(val.v[1][2].v) = 1

\* C28: mapTemplate never fails at a resource of unmapped kind, whatever its
\* content, and it fails at a resource of mapped kind that has no Properties
\* section or holds a malformed Fn::GetAtt node.
C28_KindLookupPrecedesContent ==
    [][ ( /\ pc = "resources"
          /\ template.Resources.t = "object"
          /\ idx <= Len(SourceResources) )
        => LET decl == SourceResources[idx][2] IN
           /\ decl.Type \notin MappedKinds => pc' # "threw"
           /\ (decl.Type \in MappedKinds /\ HasFailingContent(decl)) =>
                 pc' = "threw" ]_vars

====
